---- MODULE Spec2Model ----
(***************************************************************************)
(* A model of microrm (github.com/BlakeWilliams/microrm).                  *)
(*                                                                         *)
(* Part 1 models DB.replaceNames, the named-parameter rewriter, one        *)
(* iteration of its scanning loop per action (specification SpecRewrite).  *)
(* Part 2 models DB.Transaction, DB.DeleteRecord and DB.DeleteRecords on   *)
(* top of an execution handle with begin/commit/rollback (specification    *)
(* Spec).  The handle is the environment: BeginTx, Commit, ExecContext and *)
(* RowsAffected may fail; a rollback and a failed commit leave the         *)
(* committed rows as they were.                                            *)
(*                                                                         *)
(* Part 3 models the record operations DB.Select, ModelDB.Find, DB.Insert, *)
(* DB.Update, DB.UpdateRecord and DB.DeleteRecord of one executor on one   *)
(* table, with the clock that stamps the records (specification SpecCrud). *)
(*                                                                         *)
(* Layout: the helpers of replaceNames, then part 2 with its claims, then  *)
(* the actions of replaceNames and its claims, then part 3 with its        *)
(* claims.                                                                 *)
(*                                                                         *)
(* A text is a sequence of runes.  A rune is a string; the rune written    *)
(* "U+00E9" stands for the letter e-acute, which UTF-8 encodes in two      *)
(* bytes; every other rune of the alphabet is one byte.                    *)
(***************************************************************************)
EXTENDS Integers, Sequences, FiniteSets, TLC

\* ------------------------------------------------------------------------
\* Bounds
\* ------------------------------------------------------------------------

\* longest text (in runes) given to replaceNames
MaxLen == 4

\* ------------------------------------------------------------------------
\* Part 1: replaceNames
\* ------------------------------------------------------------------------

VARIABLES
    rawSql,     \* the text being rewritten, as its runes ([]rune(rawSql))
    args,       \* the Args map: parameter name -> value
    i,          \* index of the outer loop (0-based, as in the code)
    builder,    \* runes written to the strings.Builder so far
    finalArgs,  \* positional arguments collected so far
    rnPc,       \* "loop" while scanning, "returned" after the return
    retSql,     \* returned SQL
    retArgs,    \* returned argument list (a slice value)
    retErr      \* NoError, or the name cited by the returned error

rnVars == <<rawSql, args, i, builder, finalArgs, rnPc, retSql, retArgs, retErr>>

Runes == {"$", "a", "U+00E9", "1", "_", " "}

\* unicode.IsLetter / unicode.IsDigit on the alphabet
IsLetter(r) == r \in {"a", "U+00E9"}

IsDigit(r) == r = "1"

\* number of bytes of the UTF-8 encoding of a rune (strings.Builder.WriteRune)
utf8Len(r) == IF r = "U+00E9" THEN 2 ELSE 1

RECURSIVE byteLen(_)
\* strings.Builder.Len(): the number of BYTES accumulated
byteLen(s) == IF s = <<>> THEN 0 ELSE utf8Len(Head(s)) + byteLen(Tail(s))

\* sql[k] with the code's 0-based index
At(s, k) == s[k + 1]

RECURSIVE scanName(_, _)
\* the inner loop: letters, digits and underscores from index j on
scanName(s, j) ==
    IF j < Len(s) /\ (IsLetter(At(s, j)) \/ IsDigit(At(s, j)) \/ At(s, j) = "_")
    THEN <<At(s, j)>> \o scanName(s, j + 1)
    ELSE <<>>

\* the condition of the `$$` branch
isEscape(s, k) == At(s, k) = "$" /\ k + 1 < Len(s) /\ At(s, k + 1) = "$"

\* the condition that starts a parameter name after a `$`
startsName(s, k) == k + 1 < Len(s) /\ (IsLetter(At(s, k + 1)) \/ At(s, k + 1) = "_")

\* how far the outer index is moved "to the end of the name"
nameAdvance(name) == byteLen(name)

ParamNames == {<<"a">>, <<"U+00E9">>}

ArgValues == {10, 20}

NoError == <<>>

\* a slice value: nil, or a (possibly empty) list of elements
NilSlice == [isNil |-> TRUE, elems |-> <<>>]

Slice(elems) == [isNil |-> FALSE, elems |-> elems]

Texts == UNION {[1..len -> Runes] : len \in 0..MaxLen}

ArgBags == UNION {[K -> ArgValues] : K \in SUBSET ParamNames}

\* ------------------------------------------------------------------------
\* Part 2: the execution handle, Transaction, DeleteRecord, DeleteRecords
\* ------------------------------------------------------------------------

VARIABLES
    table,          \* ids of the committed rows of the one table
    modelTypeCache, \* DB.modelTypeCache: type -> modelType
    txOpen,         \* a *sql.Tx is open
    txView,         \* the rows as seen through the (last) *sql.Tx
    events,         \* what the running call did: "begin", "fn", "commit", "rollback", "panic"
    pc,             \* "idle", "body", "defer", "returned"
    op,             \* the top-level operation: "Exec", "DeleteRecord", "Transaction", "DeleteRecords"
    fnResult,       \* how the transaction body ended
    commitErr,      \* the error of tx.Commit() ("" for nil)
    result,         \* what the top-level operation returned, or the panic it raised
    before,         \* the committed rows when the top-level operation was called
    nestedCalls,    \* Transaction calls made on the scoped executor by the body
    nestedResult,   \* what the last call of the body on the scoped executor returned
    models,         \* the argument of DeleteRecords (of the caller, or of the body)
    idx,            \* index of the DeleteRecords loop
    n,              \* rows affected, summed by the DeleteRecords closure
    issued          \* the ids of the DELETE statements DeleteRecords has sent

txVars == <<table, modelTypeCache, txOpen, txView, events, pc, op, fnResult, commitErr,
            result, before, nestedCalls, nestedResult, models, idx, n, issued>>

\* Part 3: the record operations (Select, Find, Insert, Update, UpdateRecord,
\* DeleteRecord) of one executor on one table, with its clock
VARIABLES
    recType,        \* the record type the caller works with
    tableRows,      \* the rows of the table, in the order the handle returns them
    clock,          \* the instant the clock reports (clock.Now())
    rec,            \* the caller's record: its field values in declaration order
    dest,           \* the caller's slice of records (a slice value)
    crPc,           \* "idle", "returned"
    crOp,           \* the operation called
    crErr,          \* the error it returned ("" for nil)
    crCount,        \* the count it returned
    recBefore,      \* rec when the operation was called
    destBefore,     \* dest when the operation was called
    found,          \* the rows the query of Select matched, in row order
    statement,      \* the statement handed to ExecContext, with its bound values
    updates,        \* the update map given to Update or UpdateRecord
    lastInsertId,   \* what res.LastInsertId() reported
    nowUsed         \* the value of `now` in the operation

crVars == <<recType, tableRows, clock, rec, dest, crPc, crOp, crErr, crCount, recBefore,
            destBefore, found, statement, updates, lastInsertId, nowUsed>>

\* ---- part 4: the metadata cache under concurrent callers ----

VARIABLES
    pluralizers,    \* the Pluralizer field of the executor made by New ("db") and of the
                    \* scoped executor ("tx"; "none" until Transaction has made it)
    tableNameNow,   \* what TableName() of a TableNamer returns when it is asked now
    callers,        \* per goroutine: where it is in DB.newModelType, and what it holds
    invoked         \* how many times TableName() or Pluralize() was invoked

mcVars == <<pluralizers, tableNameNow, callers, invoked>>

vars == <<rnVars, txVars, crVars, mcVars>>

\* largest row id
MaxId == 2

\* longest slice given to DeleteRecords
MaxModels == 2

\* most Transaction calls a body makes on its scoped executor
MaxNested == 2

\* goroutines that resolve metadata, one resolution each
MaxCallers == 2

\* a goroutine that has not called DB.newModelType
NoCaller == [pc |-> "idle", d |-> "db", key |-> <<>>, newModel |-> <<>>, ret |-> <<>>]

Ids == 1..MaxId

\* ---- types (reflect.Type) ----

\* the record types of part 3: User is the type of the README; the others
\* vary its identity and timestamp fields, SecretUser has a field that is
\* tagged db:"-", and the identity field of PlainUser has no tag
CrudTypes ==
    {"User", "StampedUser", "UintUser", "IdUser", "TwoIDUser", "SecretUser", "PlainUser"}

StructTypes == {"KeyValue", "NoIDStruct"} \cup CrudTypes

\* an exported struct field (reflect.StructField): name, db tag, type
StructField(name, tag, type) ==
    [name |-> name, tag |-> tag, exported |-> TRUE, type |-> type]

\* the fields of the record types, in declaration order
StructFields(T) ==
    CASE T = "KeyValue" ->
           << StructField("ID", "id", "int"),
              StructField("Key", "key", "string"),
              StructField("Value", "value", "string"),
              StructField("UpdatedAt", "updated_at", "time.Time") >>
      [] T = "NoIDStruct" ->
           << StructField("Key", "key", "string"),
              StructField("Value", "value", "string") >>
      [] T = "User" ->
           << StructField("ID", "id", "int"),
              StructField("Name", "name", "string"),
              StructField("UpdatedAt", "updated_at", "time.Time"),
              StructField("CreatedAt", "created_at", "time.Time") >>
      [] T = "StampedUser" ->
           << StructField("ID", "id", "int"),
              StructField("Name", "name", "string"),
              StructField("CreatedAt", "created_at", "sql.NullTime"),
              StructField("UpdatedAt", "updated_at", "*time.Time") >>
      [] T = "UintUser" ->
           << StructField("ID", "id", "uint"),
              StructField("Name", "name", "string") >>
      [] T = "IdUser" ->
           << StructField("Id", "", "int"),
              StructField("Name", "name", "string") >>
      [] T = "TwoIDUser" ->
           << StructField("ID", "", "int"),
              StructField("Name", "name", "string"),
              StructField("UserID", "id", "int"),
              StructField("UpdatedAt", "", "time.Time"),
              StructField("TouchedAt", "updated_at", "time.Time") >>
      [] T = "SecretUser" ->
           << StructField("ID", "id", "int"),
              StructField("Name", "name", "string"),
              StructField("Password", "-", "string") >>
      [] T = "PlainUser" ->
           << StructField("ID", "", "int"),
              StructField("Name", "name", "string") >>

\* a type: pointer and slice wrappers, outermost first, around a named type
Type(wrap, elem) == [wrap |-> wrap, elem |-> elem]

Kind(t) ==
    IF t.wrap # <<>> THEN t.wrap[1]
    ELSE IF t.elem \in StructTypes THEN "struct" ELSE "interface"

Elem(t) == [t EXCEPT !.wrap = Tail(@)]

PtrTo(t) == [t EXCEPT !.wrap = <<"ptr">> \o @]

RECURSIVE peelPointers(_)
\* for t.Kind() == reflect.Pointer { t = t.Elem() }
peelPointers(t) == IF Kind(t) = "ptr" THEN peelPointers(Elem(t)) ELSE t

RECURSIVE peelAll(_)
\* for elemType.Kind() == reflect.Pointer || elemType.Kind() == reflect.Slice
peelAll(t) == IF Kind(t) \in {"ptr", "slice"} THEN peelAll(Elem(t)) ELSE t

determineIsSliceOfPointers(baseType) ==
    LET t == peelPointers(baseType)
    IN IF Kind(t) = "slice" THEN Kind(Elem(t)) = "ptr" ELSE FALSE

determineIsStructPointer(baseType) ==
    Kind(baseType) = "ptr" /\ Kind(Elem(baseType)) = "struct"

determineIsStruct(baseType) == Kind(baseType) = "struct"

determineIsValidSlice(baseType, elemType) ==
    LET t == peelPointers(baseType)
    IN Kind(t) = "slice" /\
           (Kind(elemType) = "struct" \/
            (Kind(elemType) = "ptr" /\ Kind(Elem(elemType)) = "struct"))

RECURSIVE findColumnsFirstWins(_, _, _)
\* findColumns that keeps the first field found for a role
findColumnsFirstWins(m, fields, k) ==
    IF k >= Len(fields) THEN m
    ELSE LET field == fields[k + 1]
         IN IF ~field.exported \/ field.tag = "-"
            THEN findColumnsFirstWins(m, fields, k + 1)
            ELSE findColumnsFirstWins(
                   [m EXCEPT
                      !.idFieldIndex =
                          IF @ < 0 /\ ((field.tag = "" /\ field.name = "ID") \/ field.tag = "id")
                          THEN k ELSE @,
                      !.createdAtFieldIndex =
                          IF @ < 0 /\ ((field.tag = "" /\ field.name = "CreatedAt")
                                          \/ field.tag = "created_at")
                          THEN k ELSE @,
                      !.updatedAtFieldIndex =
                          IF @ < 0 /\ ((field.tag = "" /\ field.name = "UpdatedAt")
                                          \/ field.tag = "updated_at")
                          THEN k ELSE @,
                      !.columns = Append(@, field)],
                   fields, k + 1)

RECURSIVE findColumns(_, _, _)
\* the loop over the fields from 0-based index k on; m holds the indexes
\* and columns found so far
findColumns(m, fields, k) ==
    IF k >= Len(fields) THEN m
    ELSE LET field == fields[k + 1]
         IN IF ~field.exported \/ field.tag = "-"
            THEN findColumns(m, fields, k + 1)
            ELSE findColumns(
                   [m EXCEPT
                      !.idFieldIndex =
                          IF (field.tag = "" /\ field.name = "ID") \/ field.tag = "id"
                          THEN k ELSE @,
                      !.createdAtFieldIndex =
                          IF (field.tag = "" /\ field.name = "CreatedAt") \/ field.tag = "created_at"
                          THEN k ELSE @,
                      !.updatedAtFieldIndex =
                          IF (field.tag = "" /\ field.name = "UpdatedAt") \/ field.tag = "updated_at"
                          THEN k ELSE @,
                      !.columns = Append(@, field)],
                   fields, k + 1)

ErrInvalidType == "destination must be a struct, or a slice of structs"

\* the package function: the modelType of a type, or errInvalidType
newModelType(baseType) ==
    LET elemType == peelAll(baseType)
    IN IF Kind(elemType) # "struct"
       THEN [err |-> ErrInvalidType]
       ELSE [err |-> "",
             model |-> findColumns(
                 [elemType |-> elemType,
                  baseType |-> baseType,
                  numField |-> Len(StructFields(elemType.elem)),
                  isSliceOfPointers |-> determineIsSliceOfPointers(baseType),
                  isStructPointer |-> determineIsStructPointer(baseType),
                  isStruct |-> determineIsStruct(baseType),
                  isValidSlice |-> determineIsValidSlice(baseType, elemType),
                  columns |-> <<>>,
                  idFieldIndex |-> -1,
                  createdAtFieldIndex |-> -1,
                  updatedAtFieldIndex |-> -1],
                 StructFields(elemType.elem), 0)]

\* DB.newModelType: the cached modelType of the key, else a new one
cachedModelType(cache, key) ==
    IF key \in DOMAIN cache THEN [err |-> "", model |-> cache[key]]
    ELSE newModelType(key)

\* the cache after DB.newModelType(key): a successful resolution is stored
cacheAfter(cache, key) ==
    IF key \notin DOMAIN cache /\ newModelType(key).err = ""
    THEN [t \in DOMAIN cache \cup {key} |->
             IF t = key THEN newModelType(key).model ELSE cache[t]]
    ELSE cache

\* ---- values ----

\* a struct value: its field values in declaration order; x in the first field
StructValue(T, x) == [k \in 1..Len(StructFields(T)) |-> IF k = 1 THEN x ELSE 0]

\* reflect.Value.Field(i)
Field(v, k) == v[k + 1]

\* DB.findIDField
findIDField(destValue, model) ==
    IF model.idFieldIndex < 0 THEN [ok |-> FALSE, id |-> 0]
    ELSE [ok |-> TRUE, id |-> Field(destValue, model.idFieldIndex)]

\* ---- executors and the execution handle ----

\* the type of d.db: the executor made by New holds a *sql.DB, the one
\* handed to a transaction body a *sql.Tx
handleOf(d) == IF d = "db" THEN "*sql.DB" ELSE "*sql.Tx"

\* isSqlDB without the type assertion: every executor passes
isSqlDBAlways(d) == d \in {"db", "tx"}

\* d.db.(*sql.DB) succeeds
isSqlDB(d) == handleOf(d) = "*sql.DB"

\* the rows the handle of executor d works on
rowsOf(d) == IF d = "db" THEN table ELSE txView

ErrNested == "nested transactions are not supported"

ErrBegin == "failed to begin transaction"

ErrNoID == "struct does not have an ID field"

ErrNotStructPointer == "destination must be a pointer to a struct"

ErrNotSlice == "destination must be a slice"

ErrExec == "failed to execute delete"

ErrRowsAffected == "failed to retrieve rows affected"

ErrCommit == "commit failed"

ErrBody == "error made by the body"

\* results: a returned (count, error) pair, or a raised panic
Returned(count, err) == [status |-> "returned", n |-> count, err |-> err, panic |-> ""]

Panicked(p) == [status |-> "panicked", n |-> 0, err |-> "", panic |-> p]

NoResult == [status |-> "none", n |-> 0, err |-> "", panic |-> ""]

PanicValues == {"panic in transaction", "other panic"}

\* DB.DeleteRecord on rows: the rows afterwards, the count and the error.
\* outcome is what the handle does: "ok", "execErr" (ExecContext fails),
\* "rowsAffectedErr" (RowsAffected fails after the statement ran)
DeleteRecord(cache, rows, type, value, outcome) ==
    LET mt == cachedModelType(cache, type)
    IN IF mt.err # ""
       THEN [rows |-> rows, n |-> 0, err |-> mt.err, sent |-> FALSE]
       ELSE IF ~mt.model.isStructPointer
       THEN [rows |-> rows, n |-> 0, err |-> ErrNotStructPointer, sent |-> FALSE]
       ELSE LET idField == findIDField(value, mt.model)
            IN IF ~idField.ok
               THEN [rows |-> rows, n |-> 0, err |-> ErrNoID, sent |-> FALSE]
               ELSE IF outcome = "execErr"
               THEN [rows |-> rows, n |-> 0, err |-> ErrExec, sent |-> TRUE]
               ELSE IF outcome = "rowsAffectedErr"
               THEN [rows |-> rows \ {idField.id}, n |-> 0, err |-> ErrRowsAffected, sent |-> TRUE]
               ELSE [rows |-> rows \ {idField.id},
                     n |-> IF idField.id \in rows THEN 1 ELSE 0,
                     err |-> "", sent |-> TRUE]

Outcomes == {"ok", "execErr", "rowsAffectedErr"}

\* ---- the arguments the callers pass ----

\* the types given to DeleteRecords: []*KeyValue, []KeyValue, []*NoIDStruct,
\* *KeyValue and []any
SliceArgTypes ==
    { Type(<<"slice", "ptr">>, "KeyValue"),
      Type(<<"slice">>, "KeyValue"),
      Type(<<"slice", "ptr">>, "NoIDStruct"),
      Type(<<"ptr">>, "KeyValue"),
      Type(<<"slice">>, "interface") }

IdSeqs == UNION {[1..len -> Ids] : len \in 0..MaxModels}

NoModels == [type |-> Type(<<>>, "interface"), ids |-> <<>>]

\* the statements the callers send through DB.Exec
Statements == [kind : {"insert", "delete"}, id : Ids]

\* the struct value of element k (0-based) of the DeleteRecords argument
elemValue(m, k) == StructValue(peelAll(m.type).elem, m.ids[k + 1])

\* the type of the value the DeleteRecords closure hands to DeleteRecord:
\* the element itself for a slice of pointers, else a new pointer to a copy
itemType(m) ==
    LET sliceType == peelPointers(m.type)
    IN IF determineIsSliceOfPointers(m.type)
       THEN Elem(sliceType)
       ELSE PtrTo(Elem(sliceType))

\* the rows after the handle has executed a statement
ExecContext(rows, stmt) ==
    IF stmt.kind = "insert" THEN rows \cup {stmt.id} ELSE rows \ {stmt.id}

\* ---- the values of part 3 ----

\* latest instant the clock reports
MaxTime == 2

\* a time.Time: an instant and a location
Time(instant, loc) == [instant |-> instant, loc |-> loc]

\* the zero time.Time
ZeroTime == Time(0, "UTC")

\* time.Time.UTC(): the same instant, the location set to UTC
UTC(t) == [t EXCEPT !.loc = "UTC"]

\* the value of a field or of a column.  An integer or a string is in int or
\* str.  A time is in time: valid is FALSE for a nil *time.Time, an invalid
\* sql.NullTime and a NULL column
IntValue(x) == [int |-> x, str |-> "", time |-> ZeroTime, valid |-> TRUE]

StringValue(s) == [int |-> 0, str |-> s, time |-> ZeroTime, valid |-> TRUE]

TimeValue(t) == [int |-> 0, str |-> "", time |-> t, valid |-> TRUE]

NoTime == [int |-> 0, str |-> "", time |-> ZeroTime, valid |-> FALSE]

IsTimeType(type) == type \in {"time.Time", "*time.Time", "sql.NullTime"}

\* the zero value of a type
ZeroValue(type) ==
    CASE type \in {"int", "uint"} -> IntValue(0)
      [] type = "string" -> StringValue("")
      [] type = "time.Time" -> TimeValue(ZeroTime)
      [] OTHER -> NoTime

\* the zero value of a struct type (`var record T`)
ZeroRecord(T) == [k \in 1..Len(StructFields(T)) |-> ZeroValue(StructFields(T)[k].type)]

Names == {"Alice", "Alicia"}

\* a query fragment as it is after replaceNames: no condition ("all"), a
\* parameter the Args lack ("missing"), `WHERE id = $id` ("id"), or
\* `WHERE id BETWEEN $min AND $max` ("between", id the min and to the max)
Fragment(kind, id, to) == [kind |-> kind, id |-> id, to |-> to]

\* the `?` replaceNames writes into the text of a fragment: one per
\* parameter it replaces
fragmentMarks(frag) ==
    CASE frag.kind = "id" -> 1
      [] frag.kind = "between" -> 2
      [] OTHER -> 0

\* a statement handed to the handle: the columns it names with the values
\* bound for them, the condition after them, the column the library itself
\* names in the condition (`WHERE id = ?`), the whole list of bound values,
\* and the number of `?` the text holds: one per column an INSERT or UPDATE
\* writes, and those of the condition
Stmt(kind, cols, vals, where, whereCol, bound) ==
    [kind |-> kind, cols |-> cols, vals |-> vals, where |-> where, whereCol |-> whereCol,
     args |-> bound,
     marks |-> (IF kind \in {"insert", "update"} THEN Len(cols) ELSE 0) + fragmentMarks(where)]

\* no statement has been handed to the handle
NoStmt == Stmt("none", <<>>, <<>>, Fragment("all", 0, 0), "", <<>>)

\* no update map (a nil Updates)
NoUpdates == <<>>

\* nothing is recorded of a record operation
CrudIdle ==
    /\ recType = "User"
    /\ tableRows = <<>>
    /\ clock = 1
    /\ rec = ZeroRecord("User")
    /\ dest = NilSlice
    /\ crPc = "idle"
    /\ crOp = "none"
    /\ crErr = ""
    /\ crCount = 0
    /\ recBefore = ZeroRecord("User")
    /\ destBefore = NilSlice
    /\ found = <<>>
    /\ statement = NoStmt
    /\ updates = NoUpdates
    /\ lastInsertId = 0
    /\ nowUsed = ZeroTime

\* nothing is recorded of a call: no call has been made yet, or the caller
\* is done with the last one
NoCall ==
    /\ events = <<>>
    /\ op = "none"
    /\ fnResult = NoResult
    /\ commitErr = ""
    /\ result = NoResult
    /\ before = {}
    /\ nestedCalls = 0
    /\ nestedResult = NoResult
    /\ models = NoModels
    /\ idx = 0
    /\ n = 0
    /\ issued = <<>>

InitTx ==
    /\ table = {}
    /\ modelTypeCache = <<>>
    /\ txOpen = FALSE
    /\ txView = {}
    /\ pc = "idle"
    /\ NoCall

\* no call of replaceNames is in progress
RewriterIdle ==
    /\ rawSql = <<>>
    /\ args = <<>>
    /\ i = 0
    /\ builder = <<>>
    /\ finalArgs = <<>>
    /\ rnPc = "loop"
    /\ retSql = <<>>
    /\ retArgs = NilSlice
    /\ retErr = NoError

\* no goroutine is in DB.newModelType; New has set the default pluralizer
CacheIdle ==
    /\ pluralizers = [db |-> "basicPluralizer", tx |-> "none"]
    /\ tableNameNow = "key_values"
    /\ callers = [g \in 1..MaxCallers |-> NoCaller]
    /\ invoked = 0

Init == RewriterIdle /\ InitTx /\ CrudIdle /\ CacheIdle

\* Transaction up to the call of fn: the nested-call check, BeginTx, the
\* scoped executor.  beginOk is whether BeginTx succeeds.
EnterTransactionIgnoresBeginError(d, beginOk) ==
    IF ~isSqlDB(d)
    THEN /\ result' = Returned(0, ErrNested)
         /\ pc' = "returned"
         /\ UNCHANGED <<txOpen, txView, events>>
    ELSE /\ txOpen' = beginOk
         /\ txView' = table
         /\ events' = IF beginOk THEN <<"begin", "fn">> ELSE <<"fn">>
         /\ pc' = "body"
         /\ UNCHANGED result

EnterTransaction(d, beginOk) ==
    IF ~isSqlDB(d)
    THEN /\ result' = Returned(0, ErrNested)
         /\ pc' = "returned"
         /\ UNCHANGED <<txOpen, txView, events>>
    ELSE IF ~beginOk
    THEN /\ result' = Returned(0, ErrBegin)
         /\ pc' = "returned"
         /\ UNCHANGED <<txOpen, txView, events>>
    ELSE /\ txOpen' = TRUE
         /\ txView' = table
         /\ events' = <<"begin", "fn">>
         /\ pc' = "body"
         /\ UNCHANGED result

\* DB.Exec of a statement without named parameters, on the executor made by
\* New (d = "db") or, in a transaction body, on the scoped executor
\* (d = "tx")
Exec(d, stmt) ==
    /\ d = "db" => pc = "idle"
    /\ d = "tx" => pc = "body" /\ op = "Transaction"
    /\ IF d = "db"
       THEN /\ table' = ExecContext(table, stmt)
            /\ op' = "Exec"
            /\ before' = table
            /\ result' = Returned(0, "")
            /\ pc' = "returned"
            /\ UNCHANGED txView
       ELSE /\ txView' = ExecContext(txView, stmt)
            /\ UNCHANGED <<table, op, before, result, pc>>
    /\ UNCHANGED <<modelTypeCache, txOpen, events, fnResult, commitErr,
                   nestedCalls, nestedResult, models, idx, n, issued>>
    /\ UNCHANGED <<rnVars, crVars, mcVars>>

\* DB.Transaction called on the executor made by New
Transaction ==
    /\ pc = "idle"
    /\ op' = "Transaction"
    /\ before' = table
    /\ \E beginOk \in BOOLEAN : EnterTransaction("db", beginOk)
    /\ UNCHANGED <<table, modelTypeCache, fnResult, commitErr, nestedCalls, nestedResult,
                   models, idx, n, issued>>
    /\ UNCHANGED <<rnVars, crVars, mcVars>>

\* DB.Transaction called by the body on its scoped executor
NestedTransaction ==
    /\ pc = "body"
    /\ op = "Transaction"
    /\ nestedCalls < MaxNested
    /\ nestedCalls' = nestedCalls + 1
    /\ IF ~isSqlDB("tx")
       THEN /\ nestedResult' = Returned(0, ErrNested)
            /\ UNCHANGED <<events, table>>
       ELSE /\ nestedResult' = Returned(0, "")
            /\ events' = events \o <<"begin", "fn", "commit">>
            /\ table' = txView
    /\ UNCHANGED <<modelTypeCache, txOpen, txView, pc, op, fnResult, commitErr,
                   result, before, models, idx, n, issued>>
    /\ UNCHANGED <<rnVars, crVars, mcVars>>

\* the errors a body returns: one of its own, or the one a call on its
\* scoped executor gave it
BodyErrors == {ErrBody} \cup (IF nestedResult.err # "" THEN {nestedResult.err} ELSE {})

\* the body given to Transaction by the caller ends: it returns nil or an
\* error, or it panics
FnEnds ==
    /\ pc = "body"
    /\ op = "Transaction"
    /\ \E r \in {Returned(0, "")} \cup {Returned(0, e) : e \in BodyErrors}
                   \cup {Panicked(p) : p \in PanicValues} :
           fnResult' = r
    /\ pc' = "defer"
    /\ UNCHANGED <<table, modelTypeCache, txOpen, txView, events, op, commitErr,
                   result, before, nestedCalls, nestedResult, models, idx, n, issued>>
    /\ UNCHANGED <<rnVars, crVars, mcVars>>

\* DB.DeleteRecords up to the call of its closure.  The argument is a value
\* of one of SliceArgTypes; ids are the first fields of its elements.
DeleteRecords ==
    /\ pc = "idle"
    /\ op' = "DeleteRecords"
    /\ before' = table
    /\ \E type \in SliceArgTypes, ids \in IdSeqs, beginOk \in BOOLEAN :
         LET mt == cachedModelType(modelTypeCache, type)
         IN /\ Kind(type) # "slice" => ids = <<>>
            /\ models' = [type |-> type, ids |-> ids]
            /\ modelTypeCache' = cacheAfter(modelTypeCache, type)
            /\ IF mt.err # ""
               THEN /\ result' = Returned(0, mt.err)
                    /\ pc' = "returned"
                    /\ UNCHANGED <<txOpen, txView, events>>
               ELSE IF ~mt.model.isValidSlice
               THEN /\ result' = Returned(0, ErrNotSlice)
                    /\ pc' = "returned"
                    /\ UNCHANGED <<txOpen, txView, events>>
               ELSE EnterTransaction("db", beginOk)
    /\ UNCHANGED <<table, fnResult, commitErr, nestedCalls, nestedResult, idx, n, issued>>
    /\ UNCHANGED <<rnVars, crVars, mcVars>>

\* one iteration of the loop of the DeleteRecords closure, or its return
\* when the loop is over
DeleteRecordsLoop ==
    /\ pc = "body"
    /\ op = "DeleteRecords"
    /\ IF idx < Len(models.ids)
       THEN \E outcome \in Outcomes :
              LET r == DeleteRecord(modelTypeCache, txView, itemType(models),
                                    elemValue(models, idx), outcome)
              IN /\ txView' = r.rows
                 /\ modelTypeCache' = cacheAfter(modelTypeCache, itemType(models))
                 /\ issued' = IF r.sent THEN Append(issued, models.ids[idx + 1]) ELSE issued
                 /\ IF r.err # ""
                    THEN /\ fnResult' = Returned(0, r.err)
                         /\ pc' = "defer"
                         /\ UNCHANGED <<idx, n>>
                    ELSE /\ n' = n + r.n
                         /\ idx' = idx + 1
                         /\ UNCHANGED <<fnResult, pc>>
       ELSE /\ fnResult' = Returned(0, "")
            /\ pc' = "defer"
            /\ UNCHANGED <<txView, modelTypeCache, issued, idx, n>>
    /\ UNCHANGED <<table, txOpen, events, op, commitErr, result, before,
                   nestedCalls, nestedResult, models>>
    /\ UNCHANGED <<rnVars, crVars, mcVars>>

\* deferredCall without the `else if err != nil` branch
deferredCallCommitsOnError(panicked, err) ==
    IF panicked THEN "rollback" ELSE "commit"

\* what the deferred function of Transaction calls on the transaction
deferredCall(panicked, err) ==
    IF panicked THEN "rollback"
    ELSE IF err # "" THEN "rollback"
    ELSE "commit"

\* the value of `return err`: err is not a named result, so the value is
\* fixed when fn has returned, before the deferred function assigns the
\* error of Commit to err
returnedError(fnErr, deferErr) == fnErr

\* afterRecover without the `panic(p)`: Transaction returns normally
afterRecoverSwallows(p) == Returned(0, "")

\* what the deferred function does after a recovered panic p and the rollback
afterRecover(p) == Panicked(p)

\* deleteRecordsReturn that returns the count summed so far with the error
deleteRecordsReturnKeepsCount(err, count) == Returned(count, err)

\* the end of DeleteRecords: the count only when Transaction returned nil
deleteRecordsReturn(err, count) ==
    IF err # "" THEN Returned(0, err) ELSE Returned(count, "")

\* DB.DeleteRecords called by the body on its scoped executor: the shape
\* checks, then Transaction on a handle that is a *sql.Tx. The body makes the
\* call at most once, with a slice of at most one element: the elements are
\* read by the closure only, which this call does not reach.
NestedDeleteRecords ==
    /\ pc = "body"
    /\ op = "Transaction"
    /\ models = NoModels
    /\ \E type \in SliceArgTypes, ids \in IdSeqs :
         LET mt == cachedModelType(modelTypeCache, type)
         IN /\ Kind(type) # "slice" => ids = <<>>
            /\ Len(ids) <= 1
            /\ models' = [type |-> type, ids |-> ids]
            /\ modelTypeCache' = cacheAfter(modelTypeCache, type)
            /\ IF mt.err # ""
               THEN /\ nestedResult' = Returned(0, mt.err)
                    /\ UNCHANGED <<events, table, txView, issued>>
               ELSE IF ~mt.model.isValidSlice
               THEN /\ nestedResult' = Returned(0, ErrNotSlice)
                    /\ UNCHANGED <<events, table, txView, issued>>
               ELSE IF ~isSqlDB("tx")
               THEN /\ nestedResult' = deleteRecordsReturn(ErrNested, 0)
                    /\ UNCHANGED <<events, table, txView, issued>>
               ELSE /\ nestedResult' = deleteRecordsReturn("", Cardinality(txView \cap {ids[k] : k \in 1..Len(ids)}))
                    /\ events' = events \o <<"begin", "fn", "commit">>
                    /\ issued' = ids
                    /\ txView' = txView \ {ids[k] : k \in 1..Len(ids)}
                    /\ table' = txView \ {ids[k] : k \in 1..Len(ids)}
    /\ UNCHANGED <<txOpen, pc, op, fnResult, commitErr, result, before, nestedCalls, idx, n>>
    /\ UNCHANGED <<rnVars, crVars, mcVars>>

\* fn has ended: the deferred function of Transaction runs, Transaction
\* returns (or panics again), and DeleteRecords returns.  commitOk is
\* whether tx.Commit() succeeds; a failed commit and a rollback leave the
\* committed rows as they were.
TransactionDefer ==
    /\ pc = "defer"
    /\ \E commitOk \in BOOLEAN :
         LET panicked == fnResult.status = "panicked"
             call == deferredCall(panicked, fnResult.err)
             deferErr == IF call = "commit" /\ ~commitOk THEN ErrCommit ELSE ""
             txErr == returnedError(fnResult.err, deferErr)
         IN /\ call # "commit" => commitOk
            /\ events' = IF panicked THEN events \o <<call, "panic">> ELSE Append(events, call)
            /\ table' = IF call = "commit" /\ commitOk THEN txView ELSE table
            /\ commitErr' = deferErr
            /\ result' = IF panicked THEN afterRecover(fnResult.panic)
                         ELSE IF op = "DeleteRecords" THEN deleteRecordsReturn(txErr, n)
                         ELSE Returned(0, txErr)
    /\ txOpen' = FALSE
    /\ pc' = "returned"
    /\ UNCHANGED <<modelTypeCache, txView, op, fnResult, before, nestedCalls, nestedResult,
                   models, idx, n, issued>>
    /\ UNCHANGED <<rnVars, crVars, mcVars>>

\* the caller is done with the call that returned (or has recovered its
\* panic) and goes on to its next operation
NextCall ==
    /\ pc = "returned"
    /\ pc' = "idle"
    /\ events' = <<>>
    /\ op' = "none"
    /\ fnResult' = NoResult
    /\ commitErr' = ""
    /\ result' = NoResult
    /\ before' = {}
    /\ nestedCalls' = 0
    /\ nestedResult' = NoResult
    /\ models' = NoModels
    /\ idx' = 0
    /\ n' = 0
    /\ issued' = <<>>
    /\ txView' = {}
    /\ UNCHANGED <<table, modelTypeCache, txOpen>>
    /\ UNCHANGED <<rnVars, crVars, mcVars>>

Next ==
    \/ \E d \in {"db", "tx"}, stmt \in Statements : Exec(d, stmt)
    \/ Transaction
    \/ NestedTransaction
    \/ NestedDeleteRecords
    \/ FnEnds
    \/ DeleteRecords
    \/ DeleteRecordsLoop
    \/ TransactionDefer
    \/ NextCall

Spec == Init /\ [][Next]_vars

\* ------------------------------------------------------------------------
\* Claims about Transaction and DeleteRecords
\* ------------------------------------------------------------------------

Range(seq) == {seq[k] : k \in 1..Len(seq)}

\* a Transaction call on the executor made by New has returned or panicked
TransactionOver == pc = "returned" /\ op = "Transaction" /\ events # <<>>

\* C6: when the body returns nil the transaction is committed (Commit is
\* called, Rollback is not) and, the commit succeeding, the rows written
\* through the scoped executor are the committed rows; when the body
\* returns an error the transaction is rolled back, the committed rows are
\* those from before the call, and Transaction returns that very error.
C6_CommitOnNilRollbackOnError ==
    (TransactionOver /\ fnResult.status = "returned") =>
        IF fnResult.err = ""
        THEN /\ events = <<"begin", "fn", "commit">>
             /\ commitErr = "" => table = txView
        ELSE /\ events = <<"begin", "fn", "rollback">>
             /\ table = before
             /\ result = Returned(0, fnResult.err)

\* a body wrote rows and returned an error, and Transaction has returned
C6_Witness ==
    /\ TransactionOver
    /\ fnResult = Returned(0, ErrBody)
    /\ txView # before
    /\ table = before

\* C7: when the body returns nil and the commit fails, Transaction returns
\* a non-nil error, and DeleteRecords an error instead of a count.
C7_CommitFailureSurfaced ==
    (pc = "returned" /\ op \in {"Transaction", "DeleteRecords"} /\ commitErr # "") =>
        (result.status = "returned" /\ result.err # "")

\* C8: when the body panics the transaction is rolled back and never
\* committed, and after the rollback the same panic value is raised again;
\* Transaction does not return.
C8_PanicRollsBackAndReraises ==
    (TransactionOver /\ fnResult.status = "panicked") =>
        /\ events = <<"begin", "fn", "rollback", "panic">>
        /\ result = Panicked(fnResult.panic)
        /\ table = before

\* a body wrote rows and panicked, and the panic has left Transaction
C8_Witness ==
    /\ TransactionOver
    /\ fnResult.status = "panicked"
    /\ txView # before
    /\ result.status = "panicked"

\* C9: a Transaction call on the scoped executor returns the nested-call
\* error at once: no body is invoked, no transaction is begun, and the outer
\* transaction is neither committed nor rolled back by it.
C9_NestedTransactionRejected ==
    [][nestedCalls' = nestedCalls + 1 =>
          /\ nestedResult' = Returned(0, ErrNested)
          /\ UNCHANGED <<events, txOpen, txView, table, pc>>
          /\ txOpen]_vars

\* a body has called Transaction on its scoped executor and goes on
C9_Witness ==
    /\ pc = "body"
    /\ op = "Transaction"
    /\ nestedCalls > 0
    /\ nestedResult.err = ErrNested
    /\ txOpen

\* C10: DeleteRecords sends one DELETE per element, in collection order, in
\* one transaction.  When every element delete succeeds, the transaction is
\* committed, the count is the sum of the rows the elements affected and,
\* the commit succeeding, the table has lost exactly the rows of the
\* elements.  Otherwise (a failing element delete, an argument that is no
\* slice, no transaction) it returns 0 and an error, nothing is committed
\* and the table holds the rows it held before.
C10_DeleteRecordsAllOrNothing ==
    (pc = "returned" /\ op = "DeleteRecords") =>
        IF fnResult = Returned(0, "")
        THEN /\ events = <<"begin", "fn", "commit">>
             /\ issued = models.ids
             /\ result = Returned(Cardinality(before \cap Range(models.ids)), "")
             /\ commitErr = "" => table = before \ Range(models.ids)
        ELSE /\ result.status = "returned"
             /\ result.n = 0
             /\ result.err # ""
             /\ table = before
             /\ issued = SubSeq(models.ids, 1, Len(issued))
             /\ \A k \in 1..Len(events) : events[k] # "commit"

\* DeleteRecords deleted a row in its transaction, then an element delete
\* failed, and DeleteRecords has returned
C10_Witness ==
    /\ pc = "returned"
    /\ op = "DeleteRecords"
    /\ fnResult.err # ""
    /\ txView # before
    /\ Len(issued) > 1
    /\ "rollback" \in Range(events)

\* the state in which replaceNames is entered: line 586-589
InitRewrite ==
    /\ InitTx
    /\ CrudIdle
    /\ CacheIdle
    /\ rawSql \in Texts
    /\ args \in ArgBags
    /\ i = 0
    /\ builder = <<>>
    /\ finalArgs = <<>>
    /\ rnPc = "loop"
    /\ retSql = <<>>
    /\ retArgs = NilSlice
    /\ retErr = NoError

\* the `$$` branch: one `$` is written and the second `$` is skipped
EscapedDollar ==
    /\ rnPc = "loop"
    /\ i < Len(rawSql)
    /\ isEscape(rawSql, i)
    /\ builder' = Append(builder, "$")
    /\ i' = i + 2
    /\ UNCHANGED <<rawSql, args, finalArgs, rnPc, retSql, retArgs, retErr>>
    /\ UNCHANGED <<txVars, crVars, mcVars>>

\* any rune other than `$` is copied
OtherRune ==
    /\ rnPc = "loop"
    /\ i < Len(rawSql)
    /\ At(rawSql, i) # "$"
    /\ builder' = Append(builder, At(rawSql, i))
    /\ i' = i + 1
    /\ UNCHANGED <<rawSql, args, finalArgs, rnPc, retSql, retArgs, retErr>>
    /\ UNCHANGED <<txVars, crVars, mcVars>>

\* a `$` that starts a name bound in args: one `?`, one positional argument
NamedParameter ==
    /\ rnPc = "loop"
    /\ i < Len(rawSql)
    /\ At(rawSql, i) = "$"
    /\ ~isEscape(rawSql, i)
    /\ startsName(rawSql, i)
    /\ LET name == scanName(rawSql, i + 1)
       IN /\ name \in DOMAIN args
          /\ finalArgs' = Append(finalArgs, args[name])
          /\ builder' = Append(builder, "?")
          /\ i' = i + nameAdvance(name) + 1
    /\ UNCHANGED <<rawSql, args, rnPc, retSql, retArgs, retErr>>
    /\ UNCHANGED <<txVars, crVars, mcVars>>

\* a `$` that starts a name missing from args: return "", nil, error
MissingArgument ==
    /\ rnPc = "loop"
    /\ i < Len(rawSql)
    /\ At(rawSql, i) = "$"
    /\ ~isEscape(rawSql, i)
    /\ startsName(rawSql, i)
    /\ LET name == scanName(rawSql, i + 1)
       IN /\ name \notin DOMAIN args
          /\ retErr' = name
          /\ i' = i + nameAdvance(name)
    /\ retSql' = <<>>
    /\ retArgs' = NilSlice
    /\ rnPc' = "returned"
    /\ UNCHANGED <<rawSql, args, builder, finalArgs>>
    /\ UNCHANGED <<txVars, crVars, mcVars>>

\* a `$` followed by no identifier start (or by nothing): a literal `$`
LiteralDollar ==
    /\ rnPc = "loop"
    /\ i < Len(rawSql)
    /\ At(rawSql, i) = "$"
    /\ ~isEscape(rawSql, i)
    /\ ~startsName(rawSql, i)
    /\ builder' = Append(builder, "$")
    /\ i' = i + 1
    /\ UNCHANGED <<rawSql, args, finalArgs, rnPc, retSql, retArgs, retErr>>
    /\ UNCHANGED <<txVars, crVars, mcVars>>

\* the loop is over: return builder.String(), finalArgs, nil
ReturnRewritten ==
    /\ rnPc = "loop"
    /\ i >= Len(rawSql)
    /\ retSql' = builder
    /\ retArgs' = Slice(finalArgs)
    /\ retErr' = NoError
    /\ rnPc' = "returned"
    /\ UNCHANGED <<rawSql, args, i, builder, finalArgs>>
    /\ UNCHANGED <<txVars, crVars, mcVars>>

NextRewrite ==
    \/ EscapedDollar
    \/ OtherRune
    \/ NamedParameter
    \/ MissingArgument
    \/ LiteralDollar
    \/ ReturnRewritten

SpecRewrite == InitRewrite /\ [][NextRewrite]_vars

\* ------------------------------------------------------------------------
\* What the rewriter is specified to produce (spec 3 and 4.1): the text is
\* cut, left to right, into `$$` escapes, `$name` parameters, lone `$` and
\* ordinary characters; all positions and lengths count characters.
\* ------------------------------------------------------------------------

IsIdentStart(c) == IsLetter(c) \/ c = "_"

IsIdentPart(c) == IsLetter(c) \/ IsDigit(c) \/ c = "_"

RECURSIVE IdentRun(_, _)
\* the longest run of identifier characters of text that starts at position k
IdentRun(text, k) ==
    IF k <= Len(text) /\ IsIdentPart(text[k])
    THEN <<text[k]>> \o IdentRun(text, k + 1)
    ELSE <<>>

RECURSIVE Tokens(_, _)
\* the tokens of text from position k (1-based) on
Tokens(text, k) ==
    IF k > Len(text) THEN <<>>
    ELSE IF text[k] # "$"
         THEN <<[kind |-> "char", name |-> <<>>, c |-> text[k]]>> \o Tokens(text, k + 1)
    ELSE IF k < Len(text) /\ text[k + 1] = "$"
         THEN <<[kind |-> "escape", name |-> <<>>, c |-> "$"]>> \o Tokens(text, k + 2)
    ELSE IF k < Len(text) /\ IsIdentStart(text[k + 1])
         THEN LET name == IdentRun(text, k + 1)
              IN <<[kind |-> "param", name |-> name, c |-> "?"]>>
                     \o Tokens(text, k + 1 + Len(name))
    ELSE <<[kind |-> "dollar", name |-> <<>>, c |-> "$"]>> \o Tokens(text, k + 1)

TokensOf(text) == Tokens(text, 1)

IsParam(t) == t.kind = "param"

ParamsOf(text) == SelectSeq(TokensOf(text), IsParam)

ExpectedSql(text) == [k \in 1..Len(TokensOf(text)) |-> TokensOf(text)[k].c]

ExpectedArgs(text, bag) ==
    [k \in 1..Len(ParamsOf(text)) |-> bag[ParamsOf(text)[k].name]]

AllBound(text, bag) ==
    \A k \in 1..Len(ParamsOf(text)) : ParamsOf(text)[k].name \in DOMAIN bag

\* the name of the first parameter of text, left to right, that bag lacks
FirstMissing(text, bag) ==
    LET missing == {k \in 1..Len(ParamsOf(text)) : ParamsOf(text)[k].name \notin DOMAIN bag}
    IN IF missing = {} THEN NoError
       ELSE ParamsOf(text)[CHOOSE k \in missing : \A m \in missing : k <= m].name

Count(c, s) == Cardinality({k \in 1..Len(s) : s[k] = c})

RECURSIVE DollarRun(_, _)
\* the number of consecutive `$` of text from position k on
DollarRun(text, k) ==
    IF k <= Len(text) /\ text[k] = "$" THEN 1 + DollarRun(text, k + 1) ELSE 0

RECURSIVE RunDollars(_, _)
\* the `$` that the maximal runs of `$` from position k on are to leave:
\* a run of N leaves N/2 from its pairs, and one more when N is odd and no
\* identifier follows
RunDollars(text, k) ==
    IF k > Len(text) THEN 0
    ELSE IF text[k] # "$" THEN RunDollars(text, k + 1)
    ELSE LET run == DollarRun(text, k)
             named == k + run <= Len(text) /\ IsIdentStart(text[k + run])
         IN (IF named THEN run \div 2 ELSE (run + 1) \div 2) + RunDollars(text, k + run)

RECURSIVE RunParams(_, _)
\* the runs of `$` from position k on that end in a parameter: odd runs
\* followed by an identifier
RunParams(text, k) ==
    IF k > Len(text) THEN 0
    ELSE IF text[k] # "$" THEN RunParams(text, k + 1)
    ELSE LET run == DollarRun(text, k)
             named == k + run <= Len(text) /\ IsIdentStart(text[k + run])
         IN (IF named /\ run % 2 = 1 THEN 1 ELSE 0) + RunParams(text, k + run)

HasMultiByte(text) == \E k \in 1..Len(text) : utf8Len(text[k]) > 1

HasLoneDollar(text) == \E k \in 1..Len(TokensOf(text)) : TokensOf(text)[k].kind = "dollar"

\* C1: every `$name` whose name is a key of args becomes exactly one `?`, and
\* the returned positional list holds the bound values in left-to-right
\* order, one entry per occurrence (none for keys that do not occur).
C1_BoundNamesBecomePositional ==
    (rnPc = "returned" /\ AllBound(rawSql, args)) =>
        /\ retErr = NoError
        /\ retArgs = Slice(ExpectedArgs(rawSql, args))
        /\ Count("?", retSql) = Len(ParamsOf(rawSql))

\* C2: `$$` pairs are consumed left to right; a run of N `$` not followed by
\* an identifier start is rewritten to floor(N/2) `$` plus one leftover `$`
\* when N is odd, and contributes no positional argument.
C2_DollarRunsHalved ==
    (rnPc = "returned" /\ AllBound(rawSql, args)) =>
        /\ Count("$", retSql) = RunDollars(rawSql, 1)
        /\ ~retArgs.isNil
        /\ Len(retArgs.elems) = RunParams(rawSql, 1)

\* C3: a text with `$name` tokens whose name is not a key of args fails with
\* an error naming the first such token in text order, and returns an empty
\* SQL and a nil argument list.
C3_FirstMissingNameFails ==
    (rnPc = "returned" /\ ~AllBound(rawSql, args)) =>
        /\ retErr = FirstMissing(rawSql, args)
        /\ retSql = <<>>
        /\ retArgs = NilSlice

\* C4: on a text with multi-byte characters exactly the `$name` spans are
\* replaced by one `?` each, and every character outside `$name` spans and
\* `$$` pairs is emitted unchanged and in order.
C4_ScansCharactersNotBytes ==
    (rnPc = "returned" /\ HasMultiByte(rawSql) /\ AllBound(rawSql, args)) =>
        retSql = ExpectedSql(rawSql)

\* C5: a `$` not followed by a letter or underscore (or ending the text) is
\* emitted as a literal `$`, the characters after it are emitted unchanged
\* and it adds no positional argument; an empty text with empty args yields
\* an empty SQL and an empty argument list.
C5_LoneDollarIsLiteral ==
    /\ (rnPc = "returned" /\ HasLoneDollar(rawSql) /\ AllBound(rawSql, args)) =>
           /\ retSql = ExpectedSql(rawSql)
           /\ retArgs = Slice(ExpectedArgs(rawSql, args))
    /\ (rnPc = "returned" /\ rawSql = <<>> /\ DOMAIN args = {}) =>
           /\ retSql = <<>>
           /\ retArgs = Slice(<<>>)
           /\ retErr = NoError

\* ------------------------------------------------------------------------
\* Part 3: Select, Find, Insert, Update, UpdateRecord, DeleteRecord
\* ------------------------------------------------------------------------

\* most rows the table holds
MaxRows == 2

\* snake_case on the field names of the record types: an underscore before
\* every upper-case letter but the first, and every letter lowered
snake_case(name) ==
    CASE name = "ID" -> "i_d"
      [] name = "Id" -> "id"
      [] name = "Name" -> "name"
      [] name = "UserID" -> "user_i_d"
      [] name = "UpdatedAt" -> "updated_at"
      [] name = "CreatedAt" -> "created_at"
      [] name = "TouchedAt" -> "touched_at"
      [] name = "KeyValue" -> "key_value"
      [] name = "NoIDStruct" -> "no_i_d_struct"
      [] OTHER -> name

\* the column of a field: its db tag, else its snake_cased name
columnName(col) == IF col.tag = "" THEN snake_case(col.name) ELSE col.tag

\* reflect.Type.FieldByName: the 0-based index of the field, or -1
fieldIndex(T, name) ==
    LET S == {k \in 1..Len(StructFields(T)) : StructFields(T)[k].name = name}
    IN IF S = {} THEN -1 ELSE (CHOOSE k \in S : TRUE) - 1

\* reflect.Value.FieldByName on a struct value of type T
FieldByName(T, v, name) == Field(v, fieldIndex(T, name))

\* clock.Now(): the instant of the clock, in the local time zone
clockNow == Time(clock, "Local")

\* the tests of the operations that never read the clock leave it as New
\* made it
ClockUntouched == clock = 1

\* touchTimestamp that leaves the field as it is
touchTimestampSkips(T, value, index, now) == value

\* touchTimestamp: the field at index, when it is of one of the three time
\* types, is set to now
touchTimestamp(T, value, index, now) ==
    IF index < 0 THEN value
    ELSE IF IsTimeType(StructFields(T)[index + 1].type)
    THEN [value EXCEPT ![index + 1] = TimeValue(now)]
    ELSE value

\* ---- the table behind the handle ----

TableColumns == {"id", "name", "created_at", "updated_at"}

\* the value a column takes when the INSERT does not name it
ColumnDefault(c) ==
    CASE c = "id" -> IntValue(0)
      [] c = "name" -> StringValue("")
      [] OTHER -> NoTime

\* positions of column c in a column list
Positions(cols, c) == {k \in 1..Len(cols) : cols[k] = c}

\* the statement names a column the table lacks, or a column twice, or no
\* column at all: the database rejects it
Rejected(cols) ==
    \/ cols = <<>>
    \/ \E k \in 1..Len(cols) : cols[k] \notin TableColumns
    \/ \E c \in TableColumns : Cardinality(Positions(cols, c)) > 1

\* the value bound to column c, or the fallback
Bound(cols, vals, c, fallback) ==
    IF Positions(cols, c) = {} THEN fallback
    ELSE vals[CHOOSE k \in Positions(cols, c) : TRUE]

RowIds(rows) == {rows[k]["id"].int : k \in 1..Len(rows)}

\* the ids the database generates; -1 is a key that the driver reports as a
\* negative int64
GeneratedIds == Ids \cup {-1}

\* the row an INSERT makes: a bound id of 0 asks for a generated one
InsertedRow(cols, vals, newId) ==
    [c \in TableColumns |->
        IF c = "id"
        THEN IF Bound(cols, vals, "id", IntValue(0)).int = 0
             THEN IntValue(newId)
             ELSE Bound(cols, vals, "id", IntValue(0))
        ELSE Bound(cols, vals, c, ColumnDefault(c))]

\* the rows after UPDATE ... SET cols = vals on the rows chosen by hit
UpdatedRows(rows, cols, vals, hit(_)) ==
    [k \in 1..Len(rows) |->
        IF hit(rows[k])
        THEN [c \in TableColumns |-> Bound(cols, vals, c, rows[k][c])]
        ELSE rows[k]]

\* the number of rows chosen by hit
Hits(rows, hit(_)) == Cardinality({k \in 1..Len(rows) : hit(rows[k])})

\* ---- the records the callers pass ----

\* a record the caller has just built: the identity not set or set by hand,
\* the timestamps not set or left over from somewhere else
NewFieldValues(field) ==
    CASE field.type \in {"int", "uint"} -> {IntValue(0), IntValue(MaxId)}
      [] field.type = "string" -> {StringValue("Alice")}
      [] OTHER -> {ZeroValue(field.type), TimeValue(Time(MaxTime, "Local"))}

\* a record the caller holds from an earlier Insert or Select
HeldFieldValues(field) ==
    CASE field.type \in {"int", "uint"} -> {IntValue(x) : x \in Ids}
      [] field.type = "string" -> {StringValue("Alice")}
      [] OTHER -> {TimeValue(Time(t, "UTC")) : t \in 1..MaxTime}

RECURSIVE RecordsOf(_, _)
\* the struct values with the given fields: new ones, or held ones
RecordsOf(fields, held) ==
    IF fields = <<>> THEN {<<>>}
    ELSE {<<v>> \o r :
            v \in (IF held THEN HeldFieldValues(Head(fields)) ELSE NewFieldValues(Head(fields))),
            r \in RecordsOf(Tail(fields), held)}

\* the time fields of a record hold one and the same value
OneStamp(T, r) ==
    \A j, k \in 1..Len(r) :
        (IsTimeType(StructFields(T)[j].type) /\ IsTimeType(StructFields(T)[k].type))
            => r[j].time = r[k].time /\ r[j].valid = r[k].valid

NewRecords(T) == {r \in RecordsOf(StructFields(T), FALSE) : OneStamp(T, r)}

HeldRecords(T) == {r \in RecordsOf(StructFields(T), TRUE) : OneStamp(T, r)}

\* the variables of part 2 that the record operations leave alone
txRest == <<table, txOpen, txView, events, pc, op, fnResult, commitErr, result, before,
            nestedCalls, nestedResult, models, idx, n, issued>>

ErrInsertExec == "failed to execute insert"

ErrLastInsertId == "failed to retrieve last insert ID"

\* ---- Insert ----

\* the bound columns and values of a record: one per resolved column, in
\* resolution order
boundColumns(model) == [k \in 1..Len(model.columns) |-> columnName(model.columns[k])]

boundValues(T, model, value) ==
    [k \in 1..Len(model.columns) |-> FieldByName(T, value, model.columns[k].name)]

\* setInsertedID that converts a negative id for an unsigned field
setInsertedIDUnsignedAlways(T, value, model, id) ==
    IF model.idFieldIndex < 0 THEN value
    ELSE [value EXCEPT ![model.idFieldIndex + 1] = IntValue(id)]

\* the end of Insert: the identity field, when there is one, takes the
\* generated id by its kind
setInsertedID(T, value, model, id) ==
    IF ~findIDField(value, model).ok THEN value
    ELSE LET kind == StructFields(T)[model.idFieldIndex + 1].type
         IN IF kind = "int" THEN [value EXCEPT ![model.idFieldIndex + 1] = IntValue(id)]
            ELSE IF kind = "uint"
            THEN IF id >= 0 THEN [value EXCEPT ![model.idFieldIndex + 1] = IntValue(id)]
                 ELSE value
            ELSE value

InsertOutcomes == {"ok", "execErr", "lastInsertIdErr"}

\* DB.Insert of a record the caller has built, given by pointer or by value.
\* outcome is what the handle does, newId the id the database generates (one
\* id is enough for the calls that never come to read it).
Insert ==
    /\ crPc = "idle"
    /\ \E value \in NewRecords(recType), byPointer \in BOOLEAN,
          outcome \in InsertOutcomes, newId \in GeneratedIds :
         LET type == IF byPointer THEN PtrTo(Type(<<>>, recType)) ELSE Type(<<>>, recType)
             model == cachedModelType(modelTypeCache, type).model
             now == UTC(clockNow)
             touched == touchTimestamp(recType,
                            touchTimestamp(recType, value, model.createdAtFieldIndex, now),
                            model.updatedAtFieldIndex, now)
             cols == boundColumns(model)
             vals == boundValues(recType, model, touched)
             row == InsertedRow(cols, vals, newId)
             failed == outcome = "execErr" \/ Rejected(cols) \/ row["id"].int \in RowIds(tableRows)
         IN /\ outcome # "execErr" => Len(tableRows) < MaxRows
            /\ (outcome = "execErr" \/ ~byPointer) => newId = 1
            /\ recBefore' = value
            /\ modelTypeCache' = cacheAfter(modelTypeCache, type)
            /\ IF ~model.isStructPointer
               THEN /\ crErr' = ErrNotStructPointer
                    /\ rec' = value
                    /\ statement' = NoStmt
                    /\ nowUsed' = ZeroTime
                    /\ lastInsertId' = 0
                    /\ UNCHANGED tableRows
               ELSE /\ nowUsed' = now
                    /\ statement' = Stmt("insert", cols, vals, Fragment("all", 0, 0), "", vals)
                    /\ IF failed
                       THEN /\ crErr' = ErrInsertExec
                            /\ rec' = touched
                            /\ lastInsertId' = 0
                            /\ UNCHANGED tableRows
                       ELSE /\ tableRows' = Append(tableRows, row)
                            /\ IF outcome = "lastInsertIdErr"
                               THEN /\ crErr' = ErrLastInsertId
                                    /\ rec' = touched
                                    /\ lastInsertId' = 0
                               ELSE /\ crErr' = ""
                                    /\ lastInsertId' = row["id"].int
                                    /\ rec' = setInsertedID(recType, touched, model, row["id"].int)
    /\ crPc' = "returned"
    /\ crOp' = "Insert"
    /\ crCount' = 0
    /\ UNCHANGED <<recType, clock, dest, destBefore, found, updates>>
    /\ UNCHANGED <<rnVars, txRest, mcVars>>

\* ---- Select and Find ----

\* sql.ErrNoRows, the sentinel itself
ErrNoRows == "sql: no rows in result set"

ErrPrepare == "failed to prepare query"

ErrQuery == "failed to execute Select query"

ErrShape == "expected a pointer to a slice, or a struct"

ErrRowsIteration == "error occurred during row iteration"

ErrScan == "failed to scan row"

\* the query fragments, as replaceNames hands them on: every row, the row
\* with an id, or a fragment that names a parameter the Args lack
Fragments ==
    {Fragment("all", 0, 0), Fragment("missing", 0, 0)}
        \cup {Fragment("id", x, 0) : x \in Ids}
        \cup {Fragment("between", x, y) : x, y \in Ids}

\* the positional arguments replaceNames returns for a fragment: one per
\* parameter, in the order of the text
whereArgs(frag) ==
    CASE frag.kind = "id" -> <<IntValue(frag.id)>>
      [] frag.kind = "between" -> <<IntValue(frag.id), IntValue(frag.to)>>
      [] OTHER -> <<>>

\* the row is one the fragment asks for
Matches(frag, row) ==
    CASE frag.kind = "all" -> TRUE
      [] frag.kind = "id" -> row["id"].int = frag.id
      [] frag.kind = "between" -> frag.id <= row["id"].int /\ row["id"].int <= frag.to
      [] OTHER -> FALSE

\* the rows QueryContext returns, in the order of the table
QueryContext(rows, frag) == SelectSeq(rows, LAMBDA row : Matches(frag, row))

\* Scan of one column value into a field: NULL goes into a pointer or a
\* sql.NullTime only
Scannable(value, type) == value.valid \/ type \in {"*time.Time", "sql.NullTime"}

RECURSIVE scanStruct(_, _, _, _, _)
\* scanStruct from column k on (1-based): rows.Scan assigns the columns in
\* order and stops at the first one it cannot convert
scanStruct(T, columns, row, destValue, k) ==
    IF k > Len(columns) THEN [value |-> destValue, err |-> ""]
    ELSE LET at == fieldIndex(T, columns[k].name) + 1
             value == row[columnName(columns[k])]
         IN IF ~Scannable(value, columns[k].type)
            THEN [value |-> destValue, err |-> ErrScan]
            ELSE scanStruct(T, columns, row, [destValue EXCEPT ![at] = value], k + 1)

RECURSIVE scanRows(_, _, _, _)
\* the loop of Select over the rows for a slice: the slice grows by one new
\* record per row; a row that does not scan ends Select with an error
scanRows(T, columns, rows, sliceTarget) ==
    IF rows = <<>> THEN [elems |-> sliceTarget, err |-> ""]
    ELSE LET r == scanStruct(T, columns, Head(rows), ZeroRecord(T), 1)
         IN IF r.err # "" THEN [elems |-> sliceTarget, err |-> r.err]
            ELSE scanRows(T, columns, Tail(rows), Append(sliceTarget, r.value))

\* the destinations of Select: *T, *[]T, *[]*T, T and []T
SelectDestTypes(T) ==
    { PtrTo(Type(<<>>, T)), Type(<<"ptr", "slice">>, T), Type(<<"ptr", "slice", "ptr">>, T),
      Type(<<>>, T), Type(<<"slice">>, T) }

\* rootType.Kind() == reflect.Slice || rootType.Kind() == reflect.Pointer &&
\* rootType.Elem().Kind() == reflect.Slice
isSliceDest(rootType) ==
    Kind(rootType) = "slice" \/ (Kind(rootType) = "ptr" /\ Kind(Elem(rootType)) = "slice")

\* held records whose timestamps are of instant 1
StaleRecords(T) ==
    {r \in HeldRecords(T) : \A k \in 1..Len(r) : r[k].time.instant <= 1}

\* the slices a caller passes to Select: nil, empty, or holding a record
DestSlices(T) == {NilSlice, Slice(<<>>)} \cup {Slice(<<r>>) : r \in StaleRecords(T)}

SelectOutcomes == {"ok", "queryErr", "rowsErr"}

\* selectStatement that hands the query on whatever replaceNames returned
selectStatementUnchecked(model, frag) ==
    Stmt("select", boundColumns(model), <<>>, frag, "", whereArgs(frag))

\* the query Select hands to QueryContext, when replaceNames gave it one:
\* the columns of generateSelect, the fragment and its arguments
selectStatement(model, frag) ==
    IF frag.kind = "missing" THEN NoStmt
    ELSE Stmt("select", boundColumns(model), <<>>, frag, "", whereArgs(frag))

\* DB.Select behind its call of newModelType: what it returns and what it
\* leaves in the destination (record0 a single record, slice0 a slice).
\* reflect.ValueOf(model).Elem() panics when model is a slice and no pointer.
SelectInto(type, model, frag, outcome, record0, slice0) ==
    LET columns == model.columns
        rows == QueryContext(tableRows, frag)
        unknown == \E k \in 1..Len(columns) : columnName(columns[k]) \notin TableColumns
        untouched == [err |-> "", rec |-> record0, dest |-> slice0, found |-> <<>>,
                      panics |-> FALSE]
    IN IF frag.kind = "missing" THEN [untouched EXCEPT !.err = ErrPrepare]
       ELSE IF outcome = "queryErr" \/ unknown THEN [untouched EXCEPT !.err = ErrQuery]
       ELSE IF ~model.isValidSlice /\ ~model.isStructPointer
       THEN [untouched EXCEPT !.err = ErrShape]
       ELSE IF outcome = "rowsErr" THEN [untouched EXCEPT !.err = ErrRowsIteration]
       ELSE IF isSliceDest(type) /\ Kind(type) # "ptr"
       THEN [untouched EXCEPT !.panics = TRUE]
       ELSE IF isSliceDest(type)
       THEN LET r == scanRows(recType, columns, rows, slice0.elems)
            IN IF r.err # ""
               THEN [untouched EXCEPT !.err = r.err, !.found = rows]
               ELSE [err |-> "", rec |-> record0, found |-> rows, panics |-> FALSE,
                     dest |-> IF slice0.isNil /\ r.elems = <<>> THEN NilSlice
                              ELSE Slice(r.elems)]
       ELSE IF rows = <<>>
       THEN [untouched EXCEPT !.err = ErrNoRows]
       ELSE LET r == scanStruct(recType, columns, Head(rows), record0, 1)
            IN [err |-> r.err, rec |-> r.value, dest |-> slice0, found |-> rows,
                panics |-> FALSE]

\* DB.Select into a record or a slice of the caller
Select ==
    /\ crPc = "idle"
    /\ ClockUntouched
    /\ \E type \in SelectDestTypes(recType), frag \in Fragments, outcome \in SelectOutcomes,
          record0 \in {ZeroRecord(recType)} \cup StaleRecords(recType),
          slice0 \in DestSlices(recType) :
         LET model == cachedModelType(modelTypeCache, type).model
             r == SelectInto(type, model, frag, outcome, record0, slice0)
         IN /\ isSliceDest(type) => record0 = ZeroRecord(recType)
            /\ ~isSliceDest(type) => slice0 = NilSlice
            /\ outcome # "ok" => frag.kind = "all"
            /\ modelTypeCache' = cacheAfter(modelTypeCache, type)
            /\ recBefore' = record0
            /\ destBefore' = slice0
            /\ rec' = r.rec
            /\ dest' = r.dest
            /\ found' = r.found
            /\ crErr' = r.err
            /\ statement' = selectStatement(model, frag)
            /\ crOp' = IF isSliceDest(type) THEN "SelectSlice" ELSE "SelectOne"
            /\ crPc' = IF r.panics THEN "panicked" ELSE "returned"
    /\ crCount' = 0
    /\ UNCHANGED <<recType, tableRows, clock, updates, lastInsertId, nowUsed>>
    /\ UNCHANGED <<rnVars, txRest, mcVars>>

\* ModelDB.Find: Select into a new record, which is returned with the error
Find ==
    /\ crPc = "idle"
    /\ ClockUntouched
    /\ \E frag \in Fragments, outcome \in SelectOutcomes :
         LET type == PtrTo(Type(<<>>, recType))
             model == cachedModelType(modelTypeCache, type).model
             r == SelectInto(type, model, frag, outcome, ZeroRecord(recType), NilSlice)
         IN /\ modelTypeCache' = cacheAfter(modelTypeCache, type)
            /\ recBefore' = ZeroRecord(recType)
            /\ rec' = r.rec
            /\ found' = r.found
            /\ crErr' = r.err
            /\ statement' = selectStatement(model, frag)
    /\ crPc' = "returned"
    /\ crOp' = "Find"
    /\ crCount' = 0
    /\ UNCHANGED <<recType, tableRows, clock, dest, destBefore, updates,
                   lastInsertId, nowUsed>>
    /\ UNCHANGED <<rnVars, txRest, mcVars>>

\* ---- Update and UpdateRecord ----

ErrNoUpdates == "no updates provided"

ErrUnsupportedUpdatedAt == "unsupported UpdatedAt field type"

ErrMissingField == "cannot update missing or unexported field"

ErrUpdateExec == "failed to execute update"

ErrPrepareUpdate == "failed to prepare update query"

\* a time the caller puts into an update map by hand: no reading of the clock
CallerTime == TimeValue(ZeroTime)

\* an untyped nil in an update map (`Updates{"Name": nil}`)
NilInterface == [int |-> 0, str |-> "<nil>", time |-> ZeroTime, valid |-> FALSE]

\* reflect.Value.Set takes the value: it is not an untyped nil, and its type
\* is assignable to the type of the field
AssignableTo(val, type) ==
    CASE val = NilInterface -> FALSE
      [] type \in {"int", "uint"} -> val = IntValue(val.int)
      [] type = "string" -> val = StringValue(val.str)
      [] OTHER -> val = TimeValue(val.time)

\* the update maps the callers pass: empty; keyed by the field name, as in
\* the tests; keyed by the column name, as in the README; with a timestamp
\* of the caller's; keyed by the name of a field tagged db:"-"; with a nil;
\* with an int for a string field
UpdateMaps ==
    { NoUpdates,
      "Name" :> NilInterface,
      "Name" :> IntValue(MaxId),
      "Password" :> StringValue("Alicia"),
      "Name" :> StringValue("Alicia"),
      "name" :> StringValue("Alicia"),
      ("Name" :> StringValue("Alicia")) @@ ("UpdatedAt" :> CallerTime),
      ("Name" :> StringValue("Alicia")) @@ ("CreatedAt" :> CallerTime) }

\* the update map without the injection of now: the caller's map as it is
withUpdatedAtFromCaller(T, model, given, now) == [err |-> "", updates |-> given]

\* the clone of the update map with now under the name of the updated-at
\* field, when the type has one
withUpdatedAt(T, model, given, now) ==
    IF model.updatedAtFieldIndex < 0 THEN [err |-> "", updates |-> given]
    ELSE LET updateField == StructFields(T)[model.updatedAtFieldIndex + 1]
         IN IF IsTimeType(updateField.type)
            THEN [err |-> "",
                  updates |-> [key \in DOMAIN given \cup {updateField.name} |->
                                  IF key = updateField.name THEN TimeValue(now)
                                  ELSE given[key]]]
            ELSE [err |-> ErrUnsupportedUpdatedAt, updates |-> given]

\* the keys of an update map that name a field of T, by field index
FieldKeys(T, given) ==
    {k \in 1..Len(StructFields(T)) : StructFields(T)[k].name \in DOMAIN given}

RECURSIVE InOrder(_)
\* the elements of a set of numbers, ascending
InOrder(S) ==
    IF S = {} THEN <<>>
    ELSE LET least == CHOOSE x \in S : \A y \in S : x <= y
         IN <<least>> \o InOrder(S \ {least})

\* the argument list with the values of the condition first
appendArgsWhereFirst(updateValues, queryArgs) == queryArgs \o updateValues

\* finalArgs := append(updateValues, whereArgs...)
appendArgs(updateValues, queryArgs) == updateValues \o queryArgs

\* writeBack that leaves the record as it was
writeBackNothing(T, value, given) == value

\* the loop at the end of UpdateRecord: every key of the map is written
\* onto the record
writeBack(T, value, given) ==
    [k \in 1..Len(value) |->
        IF StructFields(T)[k].name \in DOMAIN given
        THEN given[StructFields(T)[k].name]
        ELSE value[k]]

UpdateOutcomes == {"ok", "execErr", "rowsAffectedErr"}

\* DB.UpdateRecord of a record the caller holds, given by pointer or by
\* value.  The calls that return before the statement is built are made with
\* one map and one handle.  The loop at the end ranges over the map, in an
\* order Go does not fix: field.Set panics on the first value it does not
\* take, with any of the other keys written before it.
UpdateRecord ==
    /\ crPc = "idle"
    /\ \E value \in HeldRecords(recType), byPointer \in BOOLEAN, given \in UpdateMaps,
          outcome \in {"ok", "execErr"} :
         LET type == IF byPointer THEN PtrTo(Type(<<>>, recType)) ELSE Type(<<>>, recType)
             now == UTC(clockNow)
         IN \E model \in {cachedModelType(modelTypeCache, type).model} :
            \E cloned \in {withUpdatedAt(recType, model, given, now)} :
            \E keys \in {InOrder(FieldKeys(recType, cloned.updates))} :
            \E cols \in {[k \in 1..Len(keys) |-> columnName(StructFields(recType)[keys[k]])]},
               vals \in {[k \in 1..Len(keys) |->
                             cloned.updates[StructFields(recType)[keys[k]].name]]} :
         LET idField == findIDField(value, model)
             err == IF ~model.isStructPointer THEN ErrNotStructPointer
                    ELSE IF DOMAIN given = {} THEN ErrNoUpdates
                    ELSE IF ~idField.ok THEN ErrNoID
                    ELSE IF cloned.err # "" THEN cloned.err
                    ELSE IF Len(keys) # Cardinality(DOMAIN cloned.updates) THEN ErrMissingField
                    ELSE IF outcome = "execErr" \/ Rejected(cols) THEN ErrUpdateExec
                    ELSE ""
             sent == err \in {"", ErrUpdateExec}
             refused == {key \in DOMAIN cloned.updates :
                            /\ fieldIndex(recType, key) >= 0
                            /\ ~AssignableTo(cloned.updates[key],
                                          StructFields(recType)[fieldIndex(recType, key) + 1].type)}
             panics == err = "" /\ refused # {}
         IN /\ ~byPointer => (given = NoUpdates /\ outcome = "ok")
            /\ given = NoUpdates => outcome = "ok"
            /\ modelTypeCache' = cacheAfter(modelTypeCache, type)
            /\ recBefore' = value
            /\ updates' = given
            /\ crErr' = err
            /\ nowUsed' = IF ~model.isStructPointer \/ DOMAIN given = {} \/ ~idField.ok
                          THEN ZeroTime ELSE now
            /\ statement' = IF sent
                            THEN Stmt("update", cols, vals, Fragment("id", idField.id.int, 0),
                                      "id", Append(vals, idField.id))
                            ELSE NoStmt
            /\ tableRows' = IF err = ""
                            THEN UpdatedRows(tableRows, cols, vals,
                                             LAMBDA row : row["id"] = idField.id)
                            ELSE tableRows
            /\ crPc' = IF panics THEN "panicked" ELSE "returned"
            /\ \E written \in SUBSET (DOMAIN cloned.updates \ refused) :
                 /\ ~panics => written = DOMAIN cloned.updates
                 /\ rec' = IF err = ""
                           THEN writeBack(recType, value, [key \in written |-> cloned.updates[key]])
                           ELSE value
    /\ crOp' = "UpdateRecord"
    /\ crCount' = 0
    /\ UNCHANGED <<recType, clock, dest, destBefore, found, lastInsertId>>
    /\ UNCHANGED <<rnVars, txRest, mcVars>>

\* DB.Update of the rows a fragment asks for; structType is *T or T.  The
\* fragments vary for a *T, a map with an entry and a handle that works;
\* every other call names every row.
Update ==
    /\ crPc = "idle"
    /\ \E byPointer \in BOOLEAN, frag \in Fragments, given \in UpdateMaps,
          outcome \in UpdateOutcomes :
         LET type == IF byPointer THEN PtrTo(Type(<<>>, recType)) ELSE Type(<<>>, recType)
             now == UTC(clockNow)
         IN \E model \in {cachedModelType(modelTypeCache, type).model} :
            \E cloned \in {withUpdatedAt(recType, model, given, now)} :
            \E keys \in {SelectSeq([k \in 1..Len(model.columns) |->
                                       fieldIndex(recType, model.columns[k].name) + 1],
                                  LAMBDA k : StructFields(recType)[k].name
                                                 \in DOMAIN cloned.updates)} :
            \E cols \in {[k \in 1..Len(keys) |-> columnName(StructFields(recType)[keys[k]])]},
               vals \in {[k \in 1..Len(keys) |->
                             cloned.updates[StructFields(recType)[keys[k]].name]]} :
         LET err == IF ~model.isStructPointer /\ ~model.isStruct THEN ErrNotStructPointer
                    ELSE IF DOMAIN given = {} THEN ErrNoUpdates
                    ELSE IF cloned.err # "" THEN cloned.err
                    ELSE IF frag.kind = "missing" THEN ErrPrepareUpdate
                    ELSE IF outcome = "execErr" \/ Rejected(cols) THEN ErrUpdateExec
                    ELSE IF outcome = "rowsAffectedErr" THEN ErrRowsAffected
                    ELSE ""
             sent == err \in {"", ErrUpdateExec, ErrRowsAffected}
             ran == err \in {"", ErrRowsAffected}
         IN /\ (~byPointer \/ given = NoUpdates \/ outcome # "ok") => frag.kind = "all"
            /\ given = NoUpdates => outcome = "ok"
            /\ modelTypeCache' = cacheAfter(modelTypeCache, type)
            /\ updates' = given
            /\ crErr' = err
            /\ nowUsed' = IF DOMAIN given = {} THEN ZeroTime ELSE now
            /\ statement' = IF sent
                            THEN Stmt("update", cols, vals, frag, "",
                                      appendArgs(vals, whereArgs(frag)))
                            ELSE NoStmt
            /\ tableRows' = IF ran
                            THEN UpdatedRows(tableRows, cols, vals,
                                             LAMBDA row : Matches(frag, row))
                            ELSE tableRows
            /\ crCount' = IF err = "" THEN Hits(tableRows, LAMBDA row : Matches(frag, row))
                          ELSE 0
    /\ crPc' = "returned"
    /\ crOp' = "Update"
    /\ UNCHANGED <<recType, clock, rec, recBefore, dest, destBefore, found, lastInsertId>>
    /\ UNCHANGED <<rnVars, txRest, mcVars>>

\* ---- DeleteRecord on the table of part 3 ----

\* DB.DeleteRecord of a record the caller holds, given by pointer or by value
DeleteHeldRecord ==
    /\ crPc = "idle"
    /\ ClockUntouched
    /\ \E value \in StaleRecords(recType), byPointer \in BOOLEAN, outcome \in Outcomes :
         LET type == IF byPointer THEN PtrTo(Type(<<>>, recType)) ELSE Type(<<>>, recType)
             r == DeleteRecord(modelTypeCache, RowIds(tableRows), type,
                               [k \in 1..Len(value) |-> value[k].int], outcome)
         IN /\ modelTypeCache' = cacheAfter(modelTypeCache, type)
            /\ recBefore' = value
            /\ rec' = value
            /\ crErr' = r.err
            /\ crCount' = r.n
            /\ tableRows' = SelectSeq(tableRows, LAMBDA row : row["id"].int \in r.rows)
            /\ statement' = IF r.sent
                            THEN LET idField == findIDField(value, cachedModelType(modelTypeCache, type).model)
                                 IN Stmt("delete", <<>>, <<>>, Fragment("id", idField.id.int, 0),
                                         "id", <<idField.id>>)
                            ELSE NoStmt
    /\ crPc' = "returned"
    /\ crOp' = "DeleteRecord"
    /\ UNCHANGED <<recType, clock, dest, destBefore, found, updates, lastInsertId, nowUsed>>
    /\ UNCHANGED <<rnVars, txRest, mcVars>>

\* ---- Delete, Query and Exec ----

ErrDeletePrepare == "failed to prepare delete query"

ErrMissingArgument == "missing argument for named parameter"

\* an error of the handle, handed on as it is
ErrHandle == "sql: database is closed"

\* DB.Delete of the rows a fragment asks for; modelRef is *T
Delete ==
    /\ crPc = "idle"
    /\ ClockUntouched
    /\ \E frag \in Fragments, outcome \in Outcomes :
         LET type == PtrTo(Type(<<>>, recType))
             err == IF frag.kind = "missing" THEN ErrDeletePrepare
                    ELSE IF outcome = "execErr" THEN ErrExec
                    ELSE IF outcome = "rowsAffectedErr" THEN ErrRowsAffected
                    ELSE ""
         IN /\ outcome # "ok" => frag.kind = "all"
            /\ modelTypeCache' = cacheAfter(modelTypeCache, type)
            /\ crErr' = err
            /\ statement' = IF frag.kind = "missing" THEN NoStmt
                            ELSE Stmt("delete", <<>>, <<>>, frag, "", whereArgs(frag))
            /\ tableRows' = IF err \in {"", ErrRowsAffected}
                            THEN SelectSeq(tableRows, LAMBDA row : ~Matches(frag, row))
                            ELSE tableRows
            /\ crCount' = IF err = "" THEN Hits(tableRows, LAMBDA row : Matches(frag, row))
                          ELSE 0
    /\ crPc' = "returned"
    /\ crOp' = "Delete"
    /\ UNCHANGED <<recType, clock, rec, recBefore, dest, destBefore, found, updates,
                   lastInsertId, nowUsed>>
    /\ UNCHANGED <<rnVars, txRest, mcVars>>

\* DB.Query of `SELECT * FROM <table>` with a fragment: the rows of the
\* handle, or the error of replaceNames or of the handle, as it is
Query ==
    /\ crPc = "idle"
    /\ ClockUntouched
    /\ \E frag \in Fragments, outcome \in {"ok", "queryErr"} :
         /\ outcome # "ok" => frag.kind = "all"
         /\ crErr' = IF frag.kind = "missing" THEN ErrMissingArgument
                     ELSE IF outcome = "queryErr" THEN ErrHandle
                     ELSE ""
         /\ statement' = IF frag.kind = "missing" THEN NoStmt
                         ELSE Stmt("query", <<>>, <<>>, frag, "", whereArgs(frag))
         /\ found' = IF frag.kind = "missing" \/ outcome = "queryErr" THEN <<>>
                     ELSE QueryContext(tableRows, frag)
    /\ crPc' = "returned"
    /\ crOp' = "Query"
    /\ crCount' = 0
    /\ UNCHANGED <<modelTypeCache, recType, tableRows, clock, rec, recBefore, dest, destBefore,
                   updates, lastInsertId, nowUsed>>
    /\ UNCHANGED <<rnVars, txRest, mcVars>>

\* DB.Exec of `DELETE FROM <table>` with a fragment that has named
\* parameters: the result of the handle, or the error of replaceNames or of
\* the handle, as it is
ExecDelete ==
    /\ crPc = "idle"
    /\ ClockUntouched
    /\ \E frag \in Fragments, outcome \in {"ok", "execErr"} :
         /\ outcome # "ok" => frag.kind = "all"
         /\ crErr' = IF frag.kind = "missing" THEN ErrMissingArgument
                     ELSE IF outcome = "execErr" THEN ErrHandle
                     ELSE ""
         /\ statement' = IF frag.kind = "missing" THEN NoStmt
                         ELSE Stmt("exec", <<>>, <<>>, frag, "", whereArgs(frag))
         /\ tableRows' = IF frag.kind = "missing" \/ outcome = "execErr" THEN tableRows
                         ELSE SelectSeq(tableRows, LAMBDA row : ~Matches(frag, row))
         /\ crCount' = IF frag.kind = "missing" \/ outcome = "execErr" THEN 0
                       ELSE Hits(tableRows, LAMBDA row : Matches(frag, row))
    /\ crPc' = "returned"
    /\ crOp' = "Exec"
    /\ UNCHANGED <<modelTypeCache, recType, clock, rec, recBefore, dest, destBefore, found,
                   updates, lastInsertId, nowUsed>>
    /\ UNCHANGED <<rnVars, txRest, mcVars>>

\* ---- the clock and the caller ----

\* time passes between two operations (mockClock.Advance in the tests)
Advance ==
    /\ crPc = "idle"
    /\ clock < MaxTime
    /\ clock' = clock + 1
    /\ UNCHANGED <<recType, tableRows, rec, dest, crPc, crOp, crErr, crCount, recBefore,
                   destBefore, found, statement, updates, lastInsertId, nowUsed>>
    /\ UNCHANGED <<rnVars, txVars, mcVars>>

\* a row of the data the tests seed the table with
SeedRow(id, stamped) ==
    [c \in TableColumns |->
        CASE c = "id" -> IntValue(id)
          [] c = "name" -> StringValue("Alice")
          [] OTHER -> IF stamped THEN TimeValue(Time(1, "UTC")) ELSE NoTime]

\* lists of distinct ids, at most MaxRows long
DistinctIds ==
    {ids \in UNION {[1..len -> Ids] : len \in 0..MaxRows} :
        \A j, k \in 1..Len(ids) : j # k => ids[j] # ids[k]}

\* the tables an operation is run on: stamped rows in any order, or one row
\* whose timestamp columns are NULL
SeededTables ==
    {[k \in 1..Len(ids) |-> SeedRow(ids[k], TRUE)] : ids \in DistinctIds}
        \cup {<<SeedRow(1, FALSE)>>}

\* the next test: setupDB makes the table anew and empty, New a new
\* executor, and the clock is a new one
Setup ==
    /\ crPc \in {"returned", "panicked"}
    /\ crPc' = "fresh"
    /\ tableRows' = <<>>
    /\ modelTypeCache' = <<>>
    /\ clock' = 1
    /\ crOp' = "none"
    /\ crErr' = ""
    /\ crCount' = 0
    /\ rec' = ZeroRecord(recType)
    /\ recBefore' = ZeroRecord(recType)
    /\ dest' = NilSlice
    /\ destBefore' = NilSlice
    /\ found' = <<>>
    /\ statement' = NoStmt
    /\ updates' = NoUpdates
    /\ lastInsertId' = 0
    /\ nowUsed' = ZeroTime
    /\ UNCHANGED recType
    /\ UNCHANGED <<rnVars, txRest, mcVars>>

\* the test puts its rows into the new table
Seed ==
    /\ crPc = "fresh"
    /\ crPc' = "idle"
    /\ tableRows' \in SeededTables
    /\ UNCHANGED <<recType, clock, rec, dest, crOp, crErr, crCount, recBefore,
                   destBefore, found, statement, updates, lastInsertId, nowUsed>>
    /\ UNCHANGED <<rnVars, txVars, mcVars>>

\* the executor made by New, the table made and still empty, the caller
\* working with one of the record types
InitCrud ==
    /\ RewriterIdle
    /\ InitTx
    /\ CacheIdle
    /\ recType \in CrudTypes
    /\ tableRows = <<>>
    /\ clock = 1
    /\ rec = ZeroRecord(recType)
    /\ dest = NilSlice
    /\ crPc = "fresh"
    /\ crOp = "none"
    /\ crErr = ""
    /\ crCount = 0
    /\ recBefore = ZeroRecord(recType)
    /\ destBefore = NilSlice
    /\ found = <<>>
    /\ statement = NoStmt
    /\ updates = NoUpdates
    /\ lastInsertId = 0
    /\ nowUsed = ZeroTime

NextCrud ==
    \/ Insert
    \/ Select
    \/ Find
    \/ UpdateRecord
    \/ Update
    \/ DeleteHeldRecord
    \/ Delete
    \/ Query
    \/ ExecDelete
    \/ Advance
    \/ Setup
    \/ Seed

SpecCrud == InitCrud /\ [][NextCrud]_vars

\* ------------------------------------------------------------------------
\* Claims about the record operations
\* ------------------------------------------------------------------------

\* an operation of part 3 has returned
Returns(name) == crPc = "returned" /\ crOp = name

\* the metadata the code resolves for *T
ResolvedModel(T) == newModelType(PtrTo(Type(<<>>, T))).model

\* the record a row scans into
RowRecord(T, row) == scanStruct(T, ResolvedModel(T).columns, row, ZeroRecord(T), 1).value

\* the query of a Select or Find was run and gave its rows
QueryRan == crErr \notin {ErrPrepare, ErrQuery, ErrShape, ErrRowsIteration}

\* C11: a Select into a pointer to a struct whose query matches no row
\* returns sql.ErrNoRows itself and leaves every field of the destination as
\* it was; a Select into a slice whose query matches no row returns no error
\* and leaves a destination of length 0.
C11_NoRowsSentinelOrEmptySlice ==
    /\ (Returns("SelectOne") /\ QueryRan /\ found = <<>>) =>
           (crErr = ErrNoRows /\ rec = recBefore)
    /\ (Returns("SelectSlice") /\ QueryRan /\ found = <<>>) =>
           (crErr = "" /\ Len(dest.elems) = 0)

\* C12: after a successful Select into a slice the destination holds one
\* element per result row, in row order, and none of the elements it held
\* before.
C12_SelectReplacesSliceContents ==
    (Returns("SelectSlice") /\ crErr = "") =>
        /\ Len(dest.elems) = Len(found)
        /\ \A k \in 1..Len(found) : dest.elems[k] = RowRecord(recType, found[k])

\* C13: Find returns a record without an error only when exactly one row
\* matches: no match and several matches are both errors.
C13_FindNeedsExactlyOneMatch ==
    (Returns("Find") /\ crErr = "") => Len(found) = 1

\* the timestamp roles the code resolves for T, as field indexes
TimestampRoles(T) ==
    {fi \in {ResolvedModel(T).createdAtFieldIndex, ResolvedModel(T).updatedAtFieldIndex} : fi >= 0}

\* the position of the field at index fi in the column list of the statement
ColumnPosition(T, fi) ==
    CHOOSE k \in 1..Len(ResolvedModel(T).columns) :
        ResolvedModel(T).columns[k].name = StructFields(T)[fi + 1].name

\* Insert got as far as building its statement
InsertBuilt == Returns("Insert") /\ statement.kind = "insert"

C15_InsertSetsGeneratedId ==
    (Returns("Insert") /\ ResolvedModel(recType).idFieldIndex >= 0) =>
        LET fi == ResolvedModel(recType).idFieldIndex + 1
            unsigned == StructFields(recType)[fi].type = "uint"
        IN IF crErr = "" /\ ~(unsigned /\ lastInsertId < 0)
           THEN rec[fi] = IntValue(lastInsertId)
           ELSE rec[fi] = recBefore[fi]

\* a successful Insert of a record with an unsigned identity field for which
\* the database reports a negative id
C15_Witness ==
    /\ Returns("Insert")
    /\ crErr = ""
    /\ StructFields(recType)[ResolvedModel(recType).idFieldIndex + 1].type = "uint"
    /\ lastInsertId < 0

\* UpdateRecord ran its statement without an error
UpdateRecordDone == Returns("UpdateRecord") /\ crErr = ""

\* the number of rows whose id is the one the held record had
RowsAffected == Hits(tableRows, LAMBDA row : row["id"] = recBefore[ResolvedModel(recType).idFieldIndex + 1])

BothStamps == Cardinality(TimestampRoles(recType)) = 2

\* the created-at and updated-at fields, as positions in the record
CreatedAtPos == ResolvedModel(recType).createdAtFieldIndex + 1

UpdatedAtPos == ResolvedModel(recType).updatedAtFieldIndex + 1

\* C17 as the specification states it: after a successful UpdateRecord the
\* created-at field is as it was and the updated-at field is later than it
\* was.
C17_UpdatedAtStrictlyIncreases ==
    (UpdateRecordDone /\ BothStamps) =>
        /\ rec[CreatedAtPos] = recBefore[CreatedAtPos]
        /\ rec[UpdatedAtPos].time.instant > recBefore[UpdatedAtPos].time.instant

\* C17, amended: after a successful UpdateRecord the created-at field is as
\* it was unless the update map names it, and the updated-at field holds the
\* instant the clock reported at the call, which is later than its value
\* before the call whenever the clock has moved past that value.
C17_UpdatedAtFollowsClock ==
    (UpdateRecordDone /\ BothStamps) =>
        /\ StructFields(recType)[CreatedAtPos].name \notin DOMAIN updates
               => rec[CreatedAtPos] = recBefore[CreatedAtPos]
        /\ rec[UpdatedAtPos] = TimeValue(Time(clock, "UTC"))
        /\ clock > recBefore[UpdatedAtPos].time.instant
               => rec[UpdatedAtPos].time.instant > recBefore[UpdatedAtPos].time.instant

\* a successful UpdateRecord under a clock that has moved past the stamps of
\* the record, with an update map that leaves the created-at field alone
C17_Witness ==
    /\ UpdateRecordDone
    /\ BothStamps
    /\ StructFields(recType)[CreatedAtPos].name \notin DOMAIN updates
    /\ clock > recBefore[UpdatedAtPos].time.instant
    /\ RowsAffected = 1

\* the update map of the README example: the new name under the column name
ReadmeUpdates == recType = "User" /\ DOMAIN updates = {"name"}

\* C18: with the update map of the README, keyed by the column name "name",
\* an UpdateRecord of a *User on a handle that runs the statement succeeds,
\* names the name column in its statement and leaves "Alicia" in the Name
\* field; an Update that sends its statement names the name column in its SET
\* clause.
C18_UpdatesKeyedByColumnName ==
    /\ (Returns("UpdateRecord") /\ ReadmeUpdates
            /\ crErr \notin {ErrNotStructPointer, ErrUpdateExec}) =>
           /\ crErr = ""
           /\ Positions(statement.cols, "name") # {}
           /\ rec[fieldIndex(recType, "Name") + 1] = updates["name"]
    /\ (Returns("Update") /\ ReadmeUpdates /\ statement.kind = "update") =>
           Positions(statement.cols, "name") # {}

\* the declared name of the field is "id" in some mix of upper and lower case
NamedId(field) == field.name \in {"ID", "Id", "iD", "id"}

\* the field claims the identity role: by its tag, or without a tag by its
\* name whatever the case
ClaimsIdentity(field) ==
    /\ field.exported
    /\ field.tag # "-"
    /\ (field.tag = "id" \/ (field.tag = "" /\ NamedId(field)))

\* the type has a field that claims the identity role
HasIdentityCandidate(T) ==
    \E k \in 1..Len(StructFields(T)) : ClaimsIdentity(StructFields(T)[k])

\* DeleteRecord or UpdateRecord was given a pointer to a struct (and a map
\* with an entry) and so came to look for the identity field
LookedForIdentity ==
    /\ Returns("DeleteRecord") \/ Returns("UpdateRecord")
    /\ crErr \notin {ErrNotStructPointer, ErrNoUpdates}

\* C19: for a type with a field tagged "id" or an untagged field whose name
\* is "id" in any case (an `Id` field among them), the identity role is
\* resolved, and DeleteRecord and UpdateRecord do not return the no-identity
\* error.
C19_IdentityNameAnyCase ==
    (HasIdentityCandidate(recType) /\ LookedForIdentity) =>
        /\ ResolvedModel(recType).idFieldIndex >= 0
        /\ crErr # ErrNoID

\* the fields of T that qualify for a role as the code tests it, as 0-based
\* field indexes: role is the tag, name the field name taken without a tag
Qualifying(T, role, name) ==
    {k \in 0..(Len(StructFields(T)) - 1) :
        LET field == StructFields(T)[k + 1]
        IN /\ field.exported
           /\ field.tag # "-"
           /\ (field.tag = role \/ (field.tag = "" /\ field.name = name))}

\* the least and the greatest of a set of indexes, -1 for the empty set
FirstOf(S) == IF S = {} THEN -1 ELSE CHOOSE x \in S : \A y \in S : x <= y

LastOf(S) == IF S = {} THEN -1 ELSE CHOOSE x \in S : \A y \in S : x >= y

\* the types whose metadata some call has resolved
ResolvedTypes == {t \in DOMAIN modelTypeCache : Kind(peelAll(t)) = "struct"}

Finished == Count("commit", events) + Count("rollback", events)

\* C30: every transaction Transaction begins is finished exactly once before
\* Transaction returns or re-raises a panic: one of commit and rollback is
\* invoked, never both, never neither, and not before the body has ended; when
\* Transaction fails before or during begin, the body is not invoked and
\* neither commit nor rollback is
C30_BegunTransactionFinishedOnce ==
    op \in {"Transaction", "DeleteRecords"} =>
        /\ Finished <= 1
        /\ pc # "returned" => Finished = 0 /\ Count("begin", events) = 1
        /\ pc = "returned" =>
              IF Count("begin", events) > 0
              THEN /\ Finished = 1
                   /\ Count("begin", events) = 1
                   /\ Count("fn", events) = 1
                   /\ ~txOpen
              ELSE /\ events = <<>>
                   /\ result.err # ""

C30_Witness ==
    /\ pc = "returned"
    /\ op = "Transaction"
    /\ nestedCalls > 0
    /\ fnResult.status = "panicked"
    /\ Count("rollback", events) = 1
    /\ Count("commit", events) = 0

\* a call of DeleteRecords by the body on its scoped executor is the step
\* that sets the argument while the body runs
NestedDeleteRecordsStep == pc = "body" /\ op = "Transaction" /\ models' # models

\* C27: DeleteRecords called on the transaction-scoped executor returns an
\* error and count 0, issues no DELETE statement and neither commits nor rolls
\* back the enclosing transaction; for an argument that passes the shape
\* checks the error is the nested-transaction error
C27_DeleteRecordsInTransactionBody ==
    [][NestedDeleteRecordsStep =>
          /\ nestedResult'.status = "returned"
          /\ nestedResult'.n = 0
          /\ nestedResult'.err # ""
          /\ LET mt == cachedModelType(modelTypeCache, models'.type)
             IN (mt.err = "" /\ mt.model.isValidSlice) => nestedResult'.err = ErrNested
          /\ txOpen /\ txOpen'
          /\ UNCHANGED <<events, issued, table, txView, pc, result>>]_vars

C27_Witness ==
    /\ pc = "body"
    /\ op = "Transaction"
    /\ models.ids # <<>>
    /\ nestedResult = Returned(0, ErrNested)
    /\ issued = <<>>
    /\ txOpen
    /\ Finished = 0

\* ------------------------------------------------------------------------
\* Claims about the record operations, continued
\* ------------------------------------------------------------------------

\* the 1-based positions of the fields of T that are tagged db:"-"
IgnoredFields(T) == {k \in 1..Len(StructFields(T)) : StructFields(T)[k].tag = "-"}

\* C21: a field tagged db:"-" is in no column list an operation generates
\* (the resolved columns of Select, Insert and Update, the SET clause of
\* UpdateRecord), no value is bound for it, and no operation changes its
\* value in the record, UpdateRecord with the field's name as a key included
C21_IgnoredFieldNeverReadOrWritten ==
    \A k \in IgnoredFields(recType) :
        /\ \A j \in 1..Len(ResolvedModel(recType).columns) :
               ResolvedModel(recType).columns[j].name # StructFields(recType)[k].name
        /\ crPc = "returned" =>
               /\ \A j \in 1..Len(statement.cols) :
                      statement.cols[j] # columnName(StructFields(recType)[k])
               /\ rec[k] = recBefore[k]

\* the values a fragment's parameters stand for, in the order in which the
\* parameters appear in its text
ScanOrder(frag) ==
    IF frag.kind = "id" THEN <<frag.id>>
    ELSE IF frag.kind = "between" THEN <<frag.id, frag.to>>
    ELSE <<>>

\* the update map Update works with: the caller's, and the reading of the
\* clock under the name of the updated-at field
EffectiveUpdates == withUpdatedAt(recType, ResolvedModel(recType), updates, nowUsed).updates

\* the fields of the record type that the update map names and that have a
\* column, in declaration order (1-based positions)
SetFields ==
    InOrder({k \in 1..Len(StructFields(recType)) :
                /\ StructFields(recType)[k].name \in DOMAIN EffectiveUpdates
                /\ StructFields(recType)[k].tag # "-"})

\* C24: in Update the bound values are the SET values in declaration order
\* followed by the values of the WHERE fragment in the order of its text; the
\* i-th `?` stands for the i-th bound value, and the statement holds as many
\* `?` (one per SET column, one per rewritten parameter) as values are bound
C24_UpdateBindsSetThenWhere ==
    (Returns("Update") /\ statement.kind = "update") =>
        /\ Len(statement.args) = Len(SetFields) + Len(ScanOrder(statement.where))
        /\ \A k \in 1..Len(SetFields) :
               /\ statement.cols[k] = columnName(StructFields(recType)[SetFields[k]])
               /\ statement.args[k] = EffectiveUpdates[StructFields(recType)[SetFields[k]].name]
        /\ \A k \in 1..Len(ScanOrder(statement.where)) :
               statement.args[Len(SetFields) + k] = IntValue(ScanOrder(statement.where)[k])
        /\ statement.marks = Len(statement.args)

C24_Witness ==
    /\ Returns("Update")
    /\ crErr = ""
    /\ recType = "User"
    /\ statement.kind = "update"
    /\ statement.where = Fragment("between", 1, 2)
    /\ Len(statement.cols) = 2
    /\ Len(statement.args) = 4
    /\ crCount = 2

\* the column the generated column lists (Insert, Select, SET) name for the
\* identity field of T: its db tag, else its snake_cased name
IdentityColumn(T) == columnName(StructFields(T)[ResolvedModel(T).idFieldIndex + 1])

\* C28: for a record type with an identity role, the column DeleteRecord and
\* UpdateRecord name in their WHERE clause is the column that Insert, Select
\* and the SET clause generate for the identity field, an untagged field
\* named ID included
C28_WhereColumnIsIdentityColumn ==
    (crPc = "returned" /\ crOp \in {"DeleteRecord", "UpdateRecord"}
        /\ statement.kind # "none") =>
        statement.whereCol = IdentityColumn(recType)

\* the errors with which the operations report a failure of replaceNames
RewriterErrors == {ErrPrepare, ErrPrepareUpdate, ErrDeletePrepare, ErrMissingArgument}

\* an operation that takes a text with named parameters has returned
TookFragment ==
    crPc = "returned" /\ crOp \in {"SelectOne", "SelectSlice", "Update", "Delete", "Query", "Exec"}

\* C25: in Select, Update, Delete, Query and Exec a text that names a
\* parameter the arguments lack never reaches the handle: the operation
\* returns an error, no statement is sent, no row is changed or counted, and
\* the destination record or slice of the caller is as it was
C25_MissingParameterSendsNothing ==
    TookFragment =>
        /\ statement.where.kind # "missing"
        /\ crErr = "" => statement.kind # "none"
        /\ crErr \in RewriterErrors =>
               /\ statement = NoStmt
               /\ rec = recBefore
               /\ dest = destBefore
               /\ found = <<>>
               /\ crCount = 0

C25_Witness ==
    /\ Returns("SelectSlice")
    /\ crErr = ErrPrepare
    /\ statement = NoStmt
    /\ destBefore.elems # <<>>
    /\ dest = destBefore
    /\ tableRows # <<>>

\* the UPDATE of an UpdateRecord call was executed and succeeded
UpdateRecordExecuted ==
    /\ crOp = "UpdateRecord"
    /\ crPc \in {"returned", "panicked"}
    /\ statement.kind = "update"
    /\ crErr # ErrUpdateExec

\* C26: once its UPDATE has succeeded, UpdateRecord writes every key of the
\* update map back onto the record and returns normally, whatever the values
\* of the map are (a nil, a value of another type than the field's)
C26_UpdateRecordEndsNormally ==
    UpdateRecordExecuted =>
        /\ crPc = "returned"
        /\ crErr = ""
        /\ \A k \in 1..Len(rec) :
               StructFields(recType)[k].name \in DOMAIN EffectiveUpdates =>
                   rec[k] = EffectiveUpdates[StructFields(recType)[k].name]

\* a call of Select has ended, by a return or by a panic
SelectEnded == crOp \in {"SelectOne", "SelectSlice"} /\ crPc \in {"returned", "panicked"}

\* C29: for every destination whose innermost type is a struct, Select
\* returns, with or without an error, and never ends with a panic (a slice
\* passed by value included); a destination of a shape Select does not
\* support is rejected with the destination as it was
C29_SelectReturnsForEveryShape ==
    SelectEnded =>
        /\ crPc = "returned"
        /\ crErr = ErrShape => (rec = recBefore /\ dest = destBefore)

\* ------------------------------------------------------------------------
\* Part 4: DB.newModelType and its cache under concurrent callers
\* ------------------------------------------------------------------------

Callers == 1..MaxCallers

\* the pluralizer New sets, and one the caller has written
Pluralizers == {"basicPluralizer", "custom"}

\* what TableName() of KeyValue may return
TableNames == {"key_values", "kv_archive"}

\* the types the goroutines resolve: *KeyValue, *NoIDStruct, *[]NoIDStruct
\* and *any, which is no struct
CacheKeys ==
    { PtrTo(Type(<<>>, "KeyValue")), PtrTo(Type(<<>>, "NoIDStruct")),
      Type(<<"ptr", "slice">>, "NoIDStruct"), PtrTo(Type(<<>>, "interface")) }

\* the record type has a TableName method
implementsTableNamer(T) == T = "KeyValue"

\* Pluralizer.Pluralize: basicPluralizer adds an "s" to the words used here;
\* the caller's pluralizer leaves the word as it is
Pluralize(p, word) ==
    IF p = "basicPluralizer"
    THEN CASE word = "no_i_d_struct" -> "no_i_d_structs"
           [] word = "key_value" -> "key_values"
           [] OTHER -> word
    ELSE word

\* the table name of a record type: what TableName() returns, else the
\* pluralized snake_case of the type's name
tableNameOf(T, p, namer) ==
    IF implementsTableNamer(T) THEN namer ELSE Pluralize(p, snake_case(T))

\* newModelType(model, d.Pluralizer): the metadata with the table name
newModelTypeWith(baseType, p, namer) ==
    LET mt == newModelType(baseType)
    IN IF mt.err # "" THEN [err |-> mt.err, model |-> <<>>]
       ELSE [err |-> "",
             model |-> [tableName |-> tableNameOf(mt.model.elemType.elem, p, namer)] @@ mt.model]

\* sync.Map.Load that never finds the key
LoadMisses(cache, key) == [ok |-> FALSE, value |-> <<>>]

\* sync.Map.Load
Load(cache, key) ==
    IF key \in DOMAIN cache THEN [ok |-> TRUE, value |-> cache[key]]
    ELSE [ok |-> FALSE, value |-> <<>>]

\* sync.Map.Store
Store(cache, key, value) ==
    [k \in DOMAIN cache \cup {key} |-> IF k = key THEN value ELSE cache[k]]

\* a goroutine calls DB.newModelType (through any of the operations) on the
\* executor made by New or on the scoped executor
CallNewModelType(g) ==
    /\ callers[g].pc = "idle"
    /\ \E d \in {"db", "tx"}, key \in CacheKeys :
         /\ pluralizers[d] # "none"
         /\ callers' = [callers EXCEPT ![g] = [pc |-> "load", d |-> d, key |-> key,
                                               newModel |-> <<>>, ret |-> <<>>]]
    /\ UNCHANGED <<modelTypeCache, pluralizers, tableNameNow, invoked>>
    /\ UNCHANGED <<rnVars, crVars, txRest>>

\* d.modelTypeCache.Load(key), and the return of the cached value
LoadCached(g) ==
    /\ callers[g].pc = "load"
    /\ LET cached == Load(modelTypeCache, callers[g].key)
       IN callers' = [callers EXCEPT ![g] =
                         IF cached.ok
                         THEN [@ EXCEPT !.pc = "returned",
                                        !.ret = [err |-> "", model |-> cached.value]]
                         ELSE [@ EXCEPT !.pc = "miss"]]
    /\ UNCHANGED <<modelTypeCache, pluralizers, tableNameNow, invoked>>
    /\ UNCHANGED <<rnVars, crVars, txRest>>

\* newModelType(model, d.Pluralizer), and the return of its error
Resolve(g) ==
    /\ callers[g].pc = "miss"
    /\ LET r == newModelTypeWith(callers[g].key, pluralizers[callers[g].d], tableNameNow)
       IN IF r.err # ""
          THEN /\ callers' = [callers EXCEPT ![g] = [@ EXCEPT !.pc = "returned", !.ret = r]]
               /\ UNCHANGED invoked
          ELSE /\ callers' = [callers EXCEPT ![g] = [@ EXCEPT !.pc = "store",
                                                               !.newModel = r.model]]
               /\ invoked' = invoked + 1
    /\ UNCHANGED <<modelTypeCache, pluralizers, tableNameNow>>
    /\ UNCHANGED <<rnVars, crVars, txRest>>

\* d.modelTypeCache.Store(key, newModel), and the return of newModel
StoreResolved(g) ==
    /\ callers[g].pc = "store"
    /\ modelTypeCache' = Store(modelTypeCache, callers[g].key, callers[g].newModel)
    /\ callers' = [callers EXCEPT ![g] =
                      [@ EXCEPT !.pc = "returned",
                                !.ret = [err |-> "", model |-> callers[g].newModel]]]
    /\ UNCHANGED <<pluralizers, tableNameNow, invoked>>
    /\ UNCHANGED <<rnVars, crVars, txRest>>

\* the caller writes the Pluralizer field of the executor made by New
SetPluralizer ==
    /\ \E p \in Pluralizers :
         /\ p # pluralizers.db
         /\ pluralizers' = [pluralizers EXCEPT !.db = p]
    /\ UNCHANGED <<modelTypeCache, tableNameNow, callers, invoked>>
    /\ UNCHANGED <<rnVars, crVars, txRest>>

\* Transaction makes the scoped executor: the cache of its parent, and the
\* Pluralizer the parent has at that time
NewScopedExecutor ==
    /\ pluralizers.tx = "none"
    /\ pluralizers' = [pluralizers EXCEPT !.tx = pluralizers.db]
    /\ UNCHANGED <<modelTypeCache, tableNameNow, callers, invoked>>
    /\ UNCHANGED <<rnVars, crVars, txRest>>

\* TableName() of KeyValue would return another value from now on
TableNameChanges ==
    /\ \E name \in TableNames :
         /\ name # tableNameNow
         /\ tableNameNow' = name
    /\ UNCHANGED <<modelTypeCache, pluralizers, callers, invoked>>
    /\ UNCHANGED <<rnVars, crVars, txRest>>

CallerStep == \E g \in Callers : CallNewModelType(g)

LoadStep == \E g \in Callers : LoadCached(g)

ResolveStep == \E g \in Callers : Resolve(g)

StoreStep == \E g \in Callers : StoreResolved(g)

NextCache ==
    \/ CallerStep
    \/ LoadStep
    \/ ResolveStep
    \/ StoreStep
    \/ SetPluralizer
    \/ NewScopedExecutor
    \/ TableNameChanges

SpecCache == Init /\ [][NextCache]_vars

\* ------------------------------------------------------------------------
\* Claims about the metadata cache
\* ------------------------------------------------------------------------

\* goroutine g has returned from a resolution that found nothing cached and
\* so derived the metadata itself
ResolvedItself(g) ==
    callers[g].pc = "returned" /\ callers[g].ret.err = "" /\ callers[g].newModel # <<>>

\* C22: of the callers whose first access to a type ran at the same time, no
\* two are handed different Model values for the type, and once every caller
\* has returned the cache holds an entry for the type that equals what each of
\* them received
C22_RacingCallersGetOneModel ==
    (\A g \in Callers : callers[g].pc = "returned") =>
        \A g, h \in Callers :
            (ResolvedItself(g) /\ ResolvedItself(h) /\ callers[g].key = callers[h].key) =>
                /\ callers[g].ret.model = callers[h].ret.model
                /\ modelTypeCache[callers[g].key] = callers[g].ret.model

\* goroutine g takes the step that ends its look into the cache, and the
\* cache holds its type
FindsCached(g) ==
    /\ callers[g].pc = "load"
    /\ callers'[g].pc # "load"
    /\ callers[g].key \in DOMAIN modelTypeCache

\* goroutine g takes the step that returns an error
FailsToResolve(g) ==
    /\ callers[g].pc # "returned"
    /\ callers'[g].pc = "returned"
    /\ callers'[g].ret.err # ""

\* C23: the metadata is memoized per concrete outer type: a resolution that
\* comes after the type was cached, on the executor or on a scoped executor,
\* returns the cached Model without any invocation of TableName() or of the
\* Pluralizer, also when the Pluralizer field has been written or TableName()
\* would return another value by now; a resolution that fails stores nothing
C23_MemoizedPerOuterType ==
    [][\A g \in Callers :
          /\ FindsCached(g) =>
                /\ callers'[g].pc = "returned"
                /\ callers'[g].ret = [err |-> "", model |-> modelTypeCache[callers[g].key]]
                /\ invoked' = invoked
                /\ modelTypeCache' = modelTypeCache
          /\ FailsToResolve(g) =>
                /\ modelTypeCache' = modelTypeCache
                /\ callers[g].key \notin DOMAIN modelTypeCache'
          /\ \A key \in DOMAIN modelTypeCache' : modelTypeCache'[key].baseType = key]_vars

\* a scoped executor's caller has been handed the cached Model although the
\* derivation would give another table name by now, while the other outer
\* type of the same record type is not cached
C23_Witness ==
    \E g \in Callers :
        /\ callers[g].pc = "returned"
        /\ callers[g].d = "tx"
        /\ callers[g].newModel = <<>>
        /\ callers[g].ret.err = ""
        /\ callers[g].ret.model = modelTypeCache[callers[g].key]
        /\ callers[g].ret.model.tableName #
               tableNameOf(callers[g].key.elem, pluralizers[callers[g].d], tableNameNow)
        /\ Cardinality(DOMAIN modelTypeCache) = 1
        /\ invoked = 1

====
